---- MODULE Spec2Model ----
(***************************************************************************)
(* A model of detection_agent: the FileDetector / ProcessDetector          *)
(* detectors (detector.py), the Detector coordinator ("registry",          *)
(* detector.py) and the DetectionAgent (agent.py).                         *)
(*                                                                         *)
(* Fifteen specifications drive the layers of the program:                 *)
(*   SpecFile   direct detect() calls on one FileDetector over a changing  *)
(*              filesystem and a running clock;                            *)
(*   SpecReg    a Detector coordinator whose registry changes;             *)
(*   SpecDet    the coordinator as DetectionAgent fills it: direct         *)
(*              detect() calls, run_all_detections and clear_history;      *)
(*   SpecAgent  a DetectionAgent: callbacks, run_single_detection,         *)
(*              start() and the iterations of its background loop.         *)
(*   SpecLoop   start(), stop() and the background loops statement by      *)
(*              statement, called by one controlling thread;               *)
(*   SpecRace   the same, called by two controlling threads;               *)
(*   SpecDispatch  a dispatch call by call, with add_callback and          *)
(*              remove_callback between the calls;                         *)
(*   SpecOrder  the coordinator over two files, for the order of a batch;  *)
(*   SpecHist   a caller that changes the list get_detection_history       *)
(*              returned;                                                  *)
(*   SpecNames  the registry and the callback list, with a name and a      *)
(*              callable registered more than once;                        *)
(*   SpecConfig the Config (config.py): construction, load_from_file, set, *)
(*              get_all, and the pauses of the background loop;            *)
(*   SpecStatus get_status between the calls that change what it reports;  *)
(*   SpecBuild  DetectionAgent(config) over the enabled_detectors lists;   *)
(*   SpecCancel stop() beside the ticks of the background loop, with weak  *)
(*              fairness of each loop's steps;                             *)
(*   SpecIter   run_all_detections detector by detector, with the registry *)
(*              changing between two detectors.                            *)
(***************************************************************************)
EXTENDS Integers, Sequences, FiniteSets, TLC

\* ------------------------------------------------------------------ bounds

\* Modification times a file can carry are 1..MaxMtime; 0 stands for "the
\* file does not exist".
MaxMtime == 2

\* time.time() takes the values 0..MaxTime.
MaxTime == 1

\* set("detection_interval", n) is called with n in 1..MaxInterval.
MaxInterval == 2

\* A callback list holds at most MaxCallbacks entries where a callable may be
\* registered more than once.
MaxCallbacks == 3

\* An enabled_detectors list holds at most MaxEnabled entries.
MaxEnabled == 3

\* At most MaxRuns calls of run_all_detections are made between two calls of
\* clear_history.
MaxRuns == 2

\* At most MaxThreads background threads are created.
MaxThreads == 2

\* ------------------------------------------------------------ the filesystem

\* The file paths that can exist.  Both live in the directory "d", so that
\* os.path.join(root, file) of the walk of "d" gives exactly these strings.
Files == {"d/a", "d/b"}

\* The directory "d" always exists; the path "nx" never exists.
Dirs == {"d"}

\* Python's None for last_detection_time (BaseDetector.__init__).
NoTime == -1

\* os.path.exists(p) on filesystem f
Exists(f, p) == p \in Dirs \/ (p \in Files /\ f[p] # 0)

\* os.path.isfile(p)
IsFile(f, p) == p \in Files /\ f[p] # 0

\* os.path.isdir(p)
IsDir(f, p) == p \in Dirs

\* The files os.walk("d") lists on filesystem f.
Listed(f) == {p \in Files : f[p] # 0}

\* All orders in which os.walk can yield the files of a set S.
RECURSIVE Orders(_)
Orders(S) ==
  IF S = {} THEN {<<>>}
  ELSE UNION {{<<p>> \o t : t \in Orders(S \ {p})} : p \in S}

\* dict assignment d[k] = v
Put(d, k, v) == [q \in DOMAIN d \cup {k} |-> IF q = k THEN v ELSE d[q]]

EmptyDict == [q \in {} |-> 0]

\* The watch_paths lists a FileDetector is constructed with.
WatchChoices ==
  { <<"d">>, <<"nx">>, <<"nx", "d/b">>, <<"d", "d/a">>, <<"d/a", "d/a">> }

\* ---------------------------------------------------------- FileDetector

\* A pass that walks the directory for a target that does not exist.
WalkAnyway(f, walk, t) == IF IsFile(f, t) THEN <<t>> ELSE walk

\* The file paths a walk of one watch target observes, in order: the target
\* itself when it is a file, the listed files (in the order `walk`) when it
\* is a directory, nothing when it does not exist.
TargetFiles(f, walk, t) ==
  IF ~Exists(f, t) THEN <<>>
  ELSE IF IsFile(f, t) THEN <<t>>
  ELSE IF IsDir(f, t) THEN walk
  ELSE <<>>

\* The sequence of file paths whose mtime a pass over watch_paths reads.
RECURSIVE Observed(_, _, _)
Observed(f, walk, watch) ==
  IF watch = <<>> THEN <<>>
  ELSE TargetFiles(f, walk, Head(watch)) \o Observed(f, walk, Tail(watch))

\* FileDetector._initialize_cache: the snapshot taken at construction.
RECURSIVE SnapshotOf(_, _, _)
SnapshotOf(f, obs, cache) ==
  IF obs = <<>> THEN cache
  ELSE SnapshotOf(f, Tail(obs), Put(cache, Head(obs), f[Head(obs)]))

\* A constructor that takes no baseline snapshot.
NoBaseline(f, walk, watch) == EmptyDict

InitializeCache(f, walk, watch) == SnapshotOf(f, Observed(f, walk, watch), EmptyDict)

\* The event FileDetector.detect appends for path p.
FileEvent(p, t, action) ==
  [type |-> "file_change", path |-> p, timestamp |-> t, action |-> action]

\* A detect() that reports the paths the cache does not hold, and no others.
Absent(cache, p, m) == p \notin DOMAIN cache

\* The condition under which detect() reports path p with mtime m.
Differs(cache, p, m) == p \notin DOMAIN cache \/ cache[p] # m

\* The two action tags exchanged.
ActionSwapped(cache, p) == IF p \in DOMAIN cache THEN "created" ELSE "modified"

\* "modified" if path in self._file_cache else "created"
ActionOf(cache, p) == IF p \in DOMAIN cache THEN "modified" ELSE "created"

\* A detect() that reports a change and does not record it.
Forget(cache, p, m) == cache

\* A detect() that keeps the entry of the last change only.
Rebuild(cache, p, m) == Put(EmptyDict, p, m)

\* self._file_cache[path] = current_mtime
Remember(cache, p, m) == Put(cache, p, m)

\* str(e) of the FileNotFoundError os.path.getmtime raises for path p.
NoSuchFile(p) == "[Errno 2] No such file or directory: " \o p

\* The scan of detect(): the mtime reads of the paths `obs`, in order, on
\* filesystem f.  k = 1 says that the file at the head of obs disappears after
\* its existence check and before os.path.getmtime, which then raises and
\* ends the call; k = 0 says that no file disappears.
RECURSIVE Scan(_, _, _, _, _, _)
Scan(f, obs, k, t, cache, det) ==
  IF obs = <<>> THEN
    [cache |-> cache, events |-> det, raised |-> FALSE, error |-> "", dropped |-> <<>>]
  ELSE IF k = 1 THEN
    [cache |-> cache, events |-> <<>>, raised |-> TRUE,
     error |-> NoSuchFile(Head(obs)), dropped |-> det]
  ELSE
    LET p == Head(obs)
        m == f[p]
    IN IF Differs(cache, p, m)
       THEN Scan(f, Tail(obs), k - 1, t, Remember(cache, p, m),
                 Append(det, FileEvent(p, t, ActionOf(cache, p))))
       ELSE Scan(f, Tail(obs), k - 1, t, cache, det)

\* What detect() leaves in last_detection_time: the call's current_time when
\* the call reaches its last statement, the old value when it raised before.
StampAfter(old, t, scan) == IF scan.raised THEN old ELSE t

\* The result of detect() on a disabled detector: no events, nothing changed.
Untouched(cache, ldt) ==
  [cache |-> cache, events |-> <<>>, raised |-> FALSE, error |-> "",
   dropped |-> <<>>, ldt |-> ldt]

\* FileDetector.detect on a detector with the fields (en, watch, cache, ldt),
\* called at time t on filesystem f, the directory walk yielding `walk`, and
\* the k-th mtime read (k = 0: none) hitting a file that has just disappeared.
\* Scanned is the call past its check of self.enabled.
Scanned(watch, cache, ldt, f, t, walk, k) ==
  LET scan == Scan(f, Observed(f, walk, watch), k, t, cache, <<>>)
  IN [cache |-> scan.cache, events |-> scan.events, raised |-> scan.raised,
      error |-> scan.error, dropped |-> scan.dropped,
      ldt |-> StampAfter(ldt, t, scan)]

\* A detect() without the check of self.enabled.
FileDetectUnguarded(en, watch, cache, ldt, f, t, walk, k) ==
  Scanned(watch, cache, ldt, f, t, walk, k)

FileDetect(en, watch, cache, ldt, f, t, walk, k) ==
  IF ~en THEN Untouched(cache, ldt)
  ELSE Scanned(watch, cache, ldt, f, t, walk, k)

\* The filesystem after a detect() whose k-th mtime read lost its file.
AfterRace(f, obs, k) ==
  IF k = 0 THEN f ELSE [f EXCEPT ![obs[k]] = 0]

\* --------------------------------------------------------- ProcessDetector

ProcessEvent(t) ==
  [type |-> "process_check", timestamp |-> t, message |-> "Process monitoring active"]

\* ProcessDetector.detect
ProcessDetect(en, ldt, t) ==
  IF ~en THEN [events |-> <<>>, raised |-> FALSE, error |-> "", ldt |-> ldt]
  ELSE [events |-> <<ProcessEvent(t)>>, raised |-> FALSE, error |-> "", ldt |-> t]


\* ------------------------------------------------- the tests' ErrorDetector

\* str(e) of the Exception that ErrorDetector.detect raises.
TestError == "Test error"

\* ErrorDetector.detect: it raises, enabled or not.
ErrorDetect(ldt) ==
  [events |-> <<>>, raised |-> TRUE, error |-> TestError, ldt |-> ldt]

\* ------------------------------------------------ Detector (the registry)

\* Python's None as a returned value.
None == "None"

\* The event run_all_detections appends for a detector whose detect() raised.
ErrorEvent(name, err, t) ==
  [type |-> "detection_error", detector |-> name, error |-> err, timestamp |-> t]

\* The detector objects; each is constructed with a name of its own, which
\* identifies it here.
FD == "file_detector"
PD == "process_detector"
ERR == "error_detector"

Dets == {FD, PD, ERR}

\* A second FileDetector object: BaseDetector.__init__ gives it the name of
\* the first, "file_detector".
FD2 == "file_detector#2"

Objects == Dets \cup {FD2}

\* detector.name
NameOf(o) == IF o = FD2 THEN FD ELSE o

\* The names get_detector and remove_detector are called with.
Names == {NameOf(o) : o \in Objects} \cup {"nonexistent"}

\* The index of the entry of registry `reg` (a dict, as the sequence of its
\* values in insertion order) whose key is `name`; 0 when there is none.
IndexOf(reg, name) ==
  IF \E i \in DOMAIN reg : NameOf(reg[i]) = name
  THEN CHOOSE i \in DOMAIN reg : NameOf(reg[i]) = name
  ELSE 0

\* A registry that keeps every object it is given.
AppendAlways(reg, o) == Append(reg, o)

\* A remove_detector that deletes nothing.
RemoveNothing(reg, name) == [reg |-> reg, found |-> IndexOf(reg, name) # 0]

\* Detector.add_detector: self.detectors[detector.name] = detector
AddDetector(reg, o) ==
  IF IndexOf(reg, NameOf(o)) = 0 THEN Append(reg, o)
  ELSE [reg EXCEPT ![IndexOf(reg, NameOf(o))] = o]

\* Detector.remove_detector: del self.detectors[name]
RemoveDetector(reg, name) ==
  [reg |-> SelectSeq(reg, LAMBDA o : NameOf(o) # name),
   found |-> IndexOf(reg, name) # 0]

\* Detector.get_detector: self.detectors.get(name)
GetDetector(reg, name) ==
  IF IndexOf(reg, name) = 0 THEN None ELSE reg[IndexOf(reg, name)]

\* One detector's detect(), as run_all_detections calls it: on the cache and
\* the last_detection_time of state st, at time t on filesystem f.
DetectOf(o, en, watch, st, f, t, walk, k) ==
  IF o = FD THEN
    FileDetect(en, watch, st.cache, st.ldt[o], f, t, walk, k)
  ELSE IF o = PD THEN
    ProcessDetect(en, st.ldt[o], t) @@ [cache |-> st.cache]
  ELSE
    ErrorDetect(st.ldt[o]) @@ [cache |-> st.cache]

\* A handler that drops the failure.
Swallow(all, name, err, t) == all

\* except Exception as e: all_results.append({...})
OnException(all, name, err, t) == Append(all, ErrorEvent(name, err, t))

\* A loop that puts the events of each detector before those it has.
Prepend(all, events) == events \o all

\* all_results.extend(results)
OnSuccess(all, events) == all \o events

\* A loop that one raising detector ends.
AbortLoop(rest) == <<>>

\* The detectors the loop still visits after one has raised.
AfterFailure(rest) == rest

\* The loop of run_all_detections over the registry values `todo`; st carries
\* all_results, the detectors' fields and the record of the detect() calls
\* made.
RECURSIVE RunFrom(_, _, _, _, _, _, _, _)
RunFrom(todo, en, watch, st, f, t, walk, k) ==
  IF todo = <<>> THEN st
  ELSE
    LET o == Head(todo) IN
    IF ~en[o] THEN RunFrom(Tail(todo), en, watch, st, f, t, walk, k)
    ELSE
      LET r == DetectOf(o, en[o], watch, st, f, t, walk, k)
          call == [detector |-> NameOf(o), raised |-> r.raised,
                   events |-> r.events, error |-> r.error]
          st2 == [all |-> IF r.raised
                          THEN OnException(st.all, NameOf(o), r.error, t)
                          ELSE OnSuccess(st.all, r.events),
                  cache |-> r.cache,
                  ldt |-> [st.ldt EXCEPT ![o] = r.ldt],
                  calls |-> Append(st.calls, call)]
      IN RunFrom(IF r.raised THEN AfterFailure(Tail(todo)) ELSE Tail(todo),
                 en, watch, st2, f, t, walk, k)

\* A history that keeps the last batch only.
Overwrite(history, all) == all

\* self.results.extend(all_results)
Extend(history, all) == history \o all

\* Detector.clear_history
Cleared(history) == <<>>

\* A get_detection_history that hands out the history list itself.
AliasOf(history) == [held |-> TRUE, alias |-> TRUE, list |-> history]

\* Detector.get_detection_history: self.results.copy(), a new list with the
\* elements of the history.  `alias` says whether the list is the history
\* object itself; `list` is what a list of its own holds.
CopyOf(history) == [held |-> TRUE, alias |-> FALSE, list |-> history]

\* No list has been handed out.
NotTaken == [held |-> FALSE, alias |-> FALSE, list |-> <<>>]

\* What a caller reads in the list t it holds, the history being h.
View(t, h) == IF t.alias THEN h ELSE t.list

\* An element a caller puts into a list.
Marker == [type |-> "marker"]

\* The changes a caller makes to a list it holds: list.append, del list[0],
\* list.reverse.
Mutations == {"append", "remove", "reverse"}

Reverse(q) == [i \in DOMAIN q |-> q[Len(q) + 1 - i]]

Mutated(kind, q) ==
  IF kind = "append" THEN Append(q, Marker)
  ELSE IF kind = "remove" THEN Tail(q)
  ELSE Reverse(q)

\* ----------------------------------------------------------------- Config

\* Configuration values: an int, a str, or a reference to a list object.
IntV(n) == [kind |-> "int", n |-> n, s |-> ""]
StrV(x) == [kind |-> "str", n |-> 0, s |-> x]
ListV(r) == [kind |-> "list", n |-> 0, s |-> r]

\* The list object of the class-level DEFAULT_CONFIG.
DefaultList == "enabled_detectors of DEFAULT_CONFIG"
ListRefs == {DefaultList}

\* The dict objects: the class-level DEFAULT_CONFIG, the _config of the
\* Config instance, and the dict get_all returns.
DefaultDict == "DEFAULT_CONFIG"
OwnDict == "_config"
GotDict == "get_all"
DictRefs == {DefaultDict, OwnDict, GotDict}

\* "detection_interval": 30, in DEFAULT_CONFIG and as the default of the
\* get of _run_loop.
DefaultInterval == 30

\* Config.DEFAULT_CONFIG as the class body builds it.
DefaultConfig ==
  [k \in {"detection_interval", "max_threads", "log_level", "output_format",
          "enabled_detectors"} |->
     IF k = "detection_interval" THEN IntV(DefaultInterval)
     ELSE IF k = "max_threads" THEN IntV(4)
     ELSE IF k = "log_level" THEN StrV("INFO")
     ELSE IF k = "output_format" THEN StrV("json")
     ELSE ListV(DefaultList)]

DefaultListItems == <<"file", "network", "process">>

\* The config_file arguments: None, a path that does not exist, the JSON
\* document of the tests and a file that is not JSON.
NoFile == "None"
MissingFile == "nonexistent_file.json"
TestFile == "test.json"
BadFile == "invalid.json"
ConfigFiles == {NoFile, MissingFile, TestFile, BadFile}

\* os.path.exists(config_file)
ConfigExists(file) == file \in {TestFile, BadFile}

\* Whether json.load(f) raises json.JSONDecodeError.
NotJson(file) == file = BadFile

\* What json.load(f) returns for the document of the tests.
Parsed(file) ==
  [k \in {"detection_interval", "log_level", "custom_setting"} |->
     IF k = "detection_interval" THEN IntV(45)
     ELSE IF k = "log_level" THEN StrV("DEBUG")
     ELSE StrV("test_value")]

\* A constructor that takes DEFAULT_CONFIG itself as its _config.
SameDict(ds, from, to) == [dicts |-> ds, ref |-> from]

\* dict.copy(): a new dict object `to` with the keys and the values of the
\* dict `from`; a value that refers to a list refers to the same list in the
\* copy.
CopyDict(ds, from, to) == [dicts |-> [ds EXCEPT ![to] = ds[from]], ref |-> to]

\* A load that replaces the configuration by the document.
Replace(d, e) == e

\* dict.update(e) on the dict d
Update(d, e) == [k \in DOMAIN d \cup DOMAIN e |-> IF k \in DOMAIN e THEN e[k] ELSE d[k]]

\* dict.get(key, default)
GetOr(d, k, default) == IF k \in DOMAIN d THEN d[k] ELSE default

\* A load that swallows the decoding error.
IgnoreJsonError(file) == FALSE

\* load_from_file: `except json.JSONDecodeError as e: raise ValueError(...)`
RaisesValueError(file) == NotJson(file)

\* The dict d as a caller reads it through its keys, each list value with
\* the items of the list it refers to.
Deep(d, ls) ==
  [k \in DOMAIN d |->
     IF d[k].kind = "list" THEN [kind |-> "list", items |-> ls[d[k].s]]
     ELSE [kind |-> d[k].kind, items |-> <<d[k]>>]]

\* The pause of _run_loop after an iteration that raised: time.sleep(1)
Backoff == 1

\* The pause that ends an iteration of _run_loop, in seconds:
\* time.sleep(interval), or time.sleep(1) in the handler.
PauseAfter(interval, failed) == IF failed THEN Backoff ELSE interval

\* Config.validate on detection_interval: an int greater than 0.
ValidInterval(v) == v.kind = "int" /\ v.n > 0

\* --------------------------------------------------------- DetectionAgent

\* The callables registered as callbacks: the tests' two Mock() callbacks,
\* which return, and their error_callback, which raises an Exception.
Callback1 == "callback1"
Callback2 == "callback2"
ErrorCallback == "error_callback"

Callbacks == {Callback1, Callback2, ErrorCallback}

\* Whether the call callback(results) raises.
CallbackRaises(cb) == cb = ErrorCallback

\* DetectionAgent.add_callback: self._callbacks.append(callback)
AddCallback(cbs, cb) == Append(cbs, cb)

\* The index of the first occurrence of cb in the list cbs; 0 when absent.
FirstOf(cbs, cb) ==
  IF \E i \in DOMAIN cbs : cbs[i] = cb
  THEN CHOOSE i \in DOMAIN cbs : cbs[i] = cb /\ \A j \in 1..(i - 1) : cbs[j] # cb
  ELSE 0

\* DetectionAgent.remove_callback: list.remove takes the first occurrence
\* out; the call returns whether there was one.
RemoveCallback(cbs, cb) ==
  LET i == FirstOf(cbs, cb) IN
  [callbacks |-> IF i = 0 THEN cbs
                 ELSE SubSeq(cbs, 1, i - 1) \o SubSeq(cbs, i + 1, Len(cbs)),
   found |-> i # 0]

\* A loop without the try/except around the call.
Uncaught(cb) == FALSE

\* `except Exception` around callback(results): whether the loop of
\* _notify_callbacks catches what cb raises.  What these callbacks raise is
\* an Exception.
Caught(cb) == CallbackRaises(cb)

\* DetectionAgent._notify_callbacks(results) over the callbacks `todo`: the
\* invocations made, in order, each with the argument it received, and
\* whether an exception left the loop.
RECURSIVE NotifyCallbacks(_, _, _)
NotifyCallbacks(todo, res, log) ==
  IF todo = <<>> THEN [log |-> log, raised |-> FALSE]
  ELSE
    LET cb == Head(todo)
        call == [callback |-> cb, results |-> res, raised |-> CallbackRaises(cb)]
    IN IF CallbackRaises(cb) /\ ~Caught(cb)
       THEN [log |-> Append(log, call), raised |-> TRUE]
       ELSE NotifyCallbacks(Tail(todo), res, Append(log, call))

\* A tick that notifies whatever the result set.
NotifyAlways(res) == TRUE

\* run_single_detection: `if results:`
ShouldNotify(res) == res # <<>>

\* The invocations run_single_detection makes for the result set res.
Dispatch(cbs, res) ==
  IF ShouldNotify(res) THEN NotifyCallbacks(cbs, res, <<>>)
  ELSE [log |-> <<>>, raised |-> FALSE]

\* A start() without the check of self._running.
NeverRunning(r) == FALSE

\* start: `if self._running:`
AlreadyRunning(r) == r

\* Python's None for DetectionAgent._thread.
NoThread == 0

\* A stop() without the check of self._running.
StopAnyway(r) == FALSE

\* stop: `if not self._running:`
NotRunning(r) == ~r

\* A loop that never reads the flag.
Forever(r) == TRUE

\* _run_loop: `while self._running:`
Continue(r) == r

\* A loop without the try/except in its body: an exception ends it.
ExitOnError(p) == "done"

\* _run_loop: `except Exception` leads to time.sleep(1) inside the loop.
AfterError(p) == "except"

\* The positions of a Thread that is alive and inside _run_loop: at the
\* check of the flag, in run_single_detection (the check passed), in
\* time.sleep(interval), in the time.sleep(1) of the handler.
InLoop == {"check", "tick", "sleep", "except"}

\* The positions at which a thread can stay longer than the 5 seconds
\* stop() waits in join: a tick and the sleeps have no upper bound.
Blocking == {"tick", "sleep", "except"}

\* Thread.is_alive(): started and not ended.
IsAlive(p, th) == th # NoThread /\ p[th] \in InLoop

\* The threads that are alive and execute _run_loop.
LoopsOf(p) == {th \in DOMAIN p : p[th] \in InLoop}

\* The Thread objects created so far.
Created(p) == {th \in DOMAIN p : p[th] # "none"}

\* No run_all_detections is in progress.
NoIteration ==
  [on |-> FALSE, at |-> 0, size |-> 0, all_results |-> <<>>,
   returned |-> <<>>]

\* ------------------------------------------------------------------ state

VARIABLES
  fs,                   \* the filesystem: file path -> mtime, 0 when absent
  now,                  \* time.time()
  watch_paths,          \* FileDetector.watch_paths
  file_cache,           \* FileDetector._file_cache
  enabled,              \* BaseDetector.enabled, per detector
  last_detection_time,  \* BaseDetector.last_detection_time, per detector
  detectors,            \* Detector.detectors: its values, in insertion order
  results,              \* Detector.results: the history
  lastOp,               \* the operation of the last step
  ret,                  \* the events the last call returned
  retFlag,              \* the boolean the last call returned
  calls,                \* the detect() calls the last run_all_detections made
  batches,              \* the batches returned since the last clear_history
  raised,               \* whether the last call raised
  pre,                  \* the fields the last step found
  sinceScan,            \* the file changes since the FileDetector's last
                        \* completed scan (or its construction)
  scanFound,            \* sinceScan as the last call found it
  sinceInit,            \* the file changes since its construction
  callbacks,            \* DetectionAgent._callbacks
  running,              \* DetectionAgent._running
  thread,               \* DetectionAgent._thread: the Thread it references
  loops,                \* the threads that are alive and execute _run_loop
  notified,             \* the callback invocations of the last tick
  found,                \* the Agent fields the last Agent call found
  pc,                   \* the position of each Thread start() has created
  ctl,                  \* the position of each controlling thread in its call
  stopped,              \* a stop() has gone through its join and returned,
                        \* and no start() has been called since
  late,                 \* per loop: the checks of self._running it has passed
                        \* since stop() last cleared the flag
  left,                 \* per loop: how it left _run_loop
  rises,                \* the times start() has turned the flag from false
                        \* to true
  cursor,               \* the index of the list iterator of the `for` of
                        \* _notify_callbacks; 0 outside a dispatch
  invoked,              \* the callbacks the dispatch has invoked, in order
  kept,                 \* the callbacks registered since the dispatch began
  iter,                 \* the `for` of run_all_detections in progress: the
                        \* dict iterator (its index and the size of the
                        \* dict when it was made), all_results, and the
                        \* events the detect() calls have returned
  taken,                \* the list a caller holds from get_detection_history
  seen,                 \* what that list, the registry or the callback list
                        \* held before the last step
  out,                  \* the value the last call returned
  arg,                  \* the argument of the last call
  latest,               \* per name: the detector added last under it and not
                        \* removed since, or None
  dicts,                \* the dict objects of Config: DEFAULT_CONFIG, _config
                        \* and the dict get_all returned
  lists,                \* the list objects the dicts refer to
  self_config,          \* the dict object Config._config refers to
  got,                  \* the dict object the caller holds from get_all
  pause                 \* the interval a loop reads and the pause of its last
                        \* iteration

fileVars == <<fs, watch_paths, file_cache>>
detVars == <<enabled, last_detection_time>>
regVars == <<detectors, results>>
ghostVars == <<sinceScan, scanFound, sinceInit>>
agentVars == <<callbacks, running, thread, loops>>
tickVars == <<notified, found>>
loopVars == <<pc, ctl, stopped, late, left, rises>>
dispVars == <<cursor, invoked, kept, iter>>
cfgVars == <<dicts, lists, self_config, got, pause>>
sideVars == <<taken, seen, out, arg, latest, cfgVars>>
vars == <<fs, now, watch_paths, file_cache, enabled, last_detection_time,
          detectors, results, lastOp, ret, retFlag, raised, pre, calls,
          batches, sinceScan, scanFound, sinceInit, callbacks, running,
          thread, loops, notified, found, pc, ctl, stopped, late, left,
          rises, cursor, invoked, kept, iter, taken, seen, out, arg,
          latest, dicts, lists, self_config, got, pause>>

\* The Thread objects start() can create, and the threads that call the
\* Agent: the controlling thread and a second one.
Threads == 1..MaxThreads
Controllers == {"main", "other"}

\* A controlling thread that is in no call.
Idle == [op |-> "", at |-> ""]

\* A step that is none of a start(), a stop(), a background loop or a
\* dispatch taken statement by statement.
Apart == UNCHANGED <<loopVars, dispVars, sideVars>>

\* A step of a caller that holds a returned value: it leaves the Agent, its
\* loops and its dispatch alone.
Aside == UNCHANGED <<ghostVars, agentVars, tickVars, loopVars, dispVars>>

\* A summary of a run of file changes: none, exactly one (with its kind and
\* path), or several.
NoChange == [n |-> 0, kind |-> "", path |-> ""]
Several == [n |-> 2, kind |-> "", path |-> ""]
One(kind, p) == [n |-> 1, kind |-> kind, path |-> p]
Then(delta, kind, p) == IF delta.n = 0 THEN One(kind, p) ELSE Several

\* What a step does to file p: nothing, or one of the three changes.
KindOf(old, new) ==
  IF old = 0 THEN "created" ELSE IF new = 0 THEN "deleted" ELSE "modified"

\* The summaries after a step.  A step changes at most one file; a
\* file_detector scan that returns starts a new run of changes.
Track ==
  IF fs' # fs THEN
    LET p == CHOOSE q \in Files : fs'[q] # fs[q] IN
      /\ sinceScan' = Then(sinceScan, KindOf(fs[p], fs'[p]), p)
      /\ sinceInit' = Then(sinceInit, KindOf(fs[p], fs'[p]), p)
  ELSE
    /\ sinceScan' = IF last_detection_time'[FD] # last_detection_time[FD]
                       \/ (lastOp' = "detect_file" /\ enabled[FD])
                    THEN NoChange ELSE sinceScan
    /\ sinceInit' = sinceInit

\* The summaries after a step, and the one a call found.
Tracked ==
  /\ Track
  /\ scanFound' = IF lastOp' = "env" THEN sinceScan' ELSE sinceScan
  /\ UNCHANGED <<agentVars, tickVars>>
  /\ Apart

Untracked == UNCHANGED <<ghostVars, agentVars, tickVars>> /\ Apart

\* The Agent fields a step finds.
Fields ==
  [running |-> running, thread |-> thread, loops |-> loops,
   afterStart |-> lastOp = "start"]

\* A step beside the Agent: it leaves the Agent's fields alone, and what it
\* leaves is what the next Agent call finds.
Settled ==
  /\ UNCHANGED <<ghostVars, agentVars>>
  /\ notified' = <<>>
  /\ found' = Fields'
  /\ Apart

\* The fields a step finds, kept for the step's postcondition.
Snapshot ==
  [file_cache |-> file_cache, last_detection_time |-> last_detection_time,
   results |-> results]

\* A step of the environment or a setter: it returns nothing, and what it
\* leaves is what the next call finds.
Plain ==
  /\ lastOp' = "env"
  /\ ret' = <<>>
  /\ retFlag' = FALSE
  /\ raised' = FALSE
  /\ calls' = <<>>
  /\ pre' = Snapshot'

\* FileDetector(watch) on filesystem f: BaseDetector.__init__ and the
\* snapshot of _initialize_cache.
InitWith(reg) ==
  /\ fs \in [Files -> 0..MaxMtime]
  /\ now = 0
  /\ watch_paths \in WatchChoices
  /\ \E walk \in Orders(Listed(fs)) :
       file_cache = InitializeCache(fs, walk, watch_paths)
  /\ enabled = [o \in Dets |-> TRUE]
  /\ last_detection_time = [o \in Dets |-> NoTime]
  /\ detectors = reg
  /\ results = <<>>
  /\ lastOp = "init"
  /\ ret = <<>>
  /\ retFlag = FALSE
  /\ raised = FALSE
  /\ calls = <<>>
  /\ batches = <<>>
  /\ sinceScan = NoChange
  /\ scanFound = NoChange
  /\ sinceInit = NoChange
  /\ pre = Snapshot
  /\ callbacks = <<>>
  /\ running = FALSE
  /\ thread = NoThread
  /\ loops = {}
  /\ notified = <<>>
  /\ found = Fields
  /\ pc = [th \in Threads |-> "none"]
  /\ ctl = [c \in Controllers |-> Idle]
  /\ stopped = FALSE
  /\ late = [th \in Threads |-> 0]
  /\ left = [th \in Threads |-> ""]
  /\ rises = 0
  /\ cursor = 0
  /\ invoked = <<>>
  /\ kept = {}
  /\ iter = NoIteration
  /\ taken = NotTaken
  /\ seen = <<>>
  /\ out = None
  /\ arg = ""
  /\ latest = [n \in Names |-> IF IndexOf(reg, n) = 0 THEN None
                                ELSE reg[IndexOf(reg, n)]]
  /\ dicts = CopyDict([r \in DictRefs |-> IF r = DefaultDict THEN DefaultConfig
                                           ELSE EmptyDict],
                      DefaultDict, OwnDict).dicts
  /\ lists = [r \in ListRefs |-> DefaultListItems]
  /\ self_config = CopyDict(dicts, DefaultDict, OwnDict).ref
  /\ got = None
  /\ pause = [interval |-> DefaultInterval, slept |-> 0]

InitFile == InitWith(<<>>)

\* ------------------------------------------------------------ environment

\* Time passes.
Tick ==
  /\ now < MaxTime
  /\ now' = now + 1
  /\ UNCHANGED <<fileVars, detVars, regVars, batches>>
  /\ Plain

\* A file appears with mtime m.
CreateFile(p, m) ==
  /\ fs[p] = 0
  /\ fs' = [fs EXCEPT ![p] = m]
  /\ UNCHANGED <<now, watch_paths, file_cache, detVars, regVars, batches>>
  /\ Plain

\* A file is written: its mtime becomes another value m.
ModifyFile(p, m) ==
  /\ fs[p] # 0
  /\ fs[p] # m
  /\ fs' = [fs EXCEPT ![p] = m]
  /\ UNCHANGED <<now, watch_paths, file_cache, detVars, regVars, batches>>
  /\ Plain

\* A file is deleted.
DeleteFile(p) ==
  /\ fs[p] # 0
  /\ fs' = [fs EXCEPT ![p] = 0]
  /\ UNCHANGED <<now, watch_paths, file_cache, detVars, regVars, batches>>
  /\ Plain

\* ---------------------------------------------------- BaseDetector setters

\* BaseDetector.enable
Enable(o) ==
  /\ enabled' = [enabled EXCEPT ![o] = TRUE]
  /\ UNCHANGED <<fileVars, now, last_detection_time, regVars, batches>>
  /\ Plain

\* BaseDetector.disable
Disable(o) ==
  /\ enabled' = [enabled EXCEPT ![o] = FALSE]
  /\ UNCHANGED <<fileVars, now, last_detection_time, regVars, batches>>
  /\ Plain

\* ------------------------------------------------------ direct detect() calls

\* The mtime reads at which a file can disappear under a detect() call.
Races(en, obs) == IF en THEN 0..Len(obs) ELSE {0}

\* file_detector.detect()
DetectFile ==
  \E walk \in Orders(Listed(fs)) :
    LET obs == Observed(fs, walk, watch_paths) IN
    \E k \in Races(enabled[FD], obs) :
      LET r == FileDetect(enabled[FD], watch_paths, file_cache,
                          last_detection_time[FD], fs, now, walk, k)
      IN /\ file_cache' = r.cache
         /\ last_detection_time' = [last_detection_time EXCEPT ![FD] = r.ldt]
         /\ fs' = AfterRace(fs, obs, k)
         /\ ret' = r.events
         /\ raised' = r.raised
         /\ lastOp' = "detect_file"
         /\ retFlag' = FALSE
         /\ calls' = <<>>
         /\ pre' = Snapshot
         /\ UNCHANGED <<now, watch_paths, enabled, regVars, batches>>

\* process_detector.detect()
DetectProcess ==
  LET r == ProcessDetect(enabled[PD], last_detection_time[PD], now)
  IN /\ last_detection_time' = [last_detection_time EXCEPT ![PD] = r.ldt]
     /\ ret' = r.events
     /\ raised' = r.raised
     /\ lastOp' = "detect_process"
     /\ retFlag' = FALSE
     /\ calls' = <<>>
     /\ pre' = Snapshot
     /\ UNCHANGED <<fileVars, now, enabled, regVars, batches>>

NextFile ==
  \/ Tick /\ Tracked
  \/ \E p \in Files, m \in 1..MaxMtime : CreateFile(p, m) /\ Tracked
  \/ \E p \in Files, m \in 1..MaxMtime : ModifyFile(p, m) /\ Tracked
  \/ \E p \in Files : DeleteFile(p) /\ Tracked
  \/ Enable(FD) /\ Tracked
  \/ Disable(FD) /\ Tracked
  \/ DetectFile /\ Tracked

SpecFile == InitFile /\ [][NextFile]_vars

\* ------------------------------------------------ the Detector coordinator

\* Detector() with the three detectors constructed beside it, the
\* FileDetector over the directory: the registry and the history are empty.
\* The file changes of this specification are those of one file.
InitReg == InitFile /\ watch_paths = <<"d">> /\ fs["d/b"] = 0

\* detector.add_detector(o)
RegAdd(o) ==
  /\ detectors' = AddDetector(detectors, o)
  /\ UNCHANGED <<fileVars, now, detVars, results, batches>>
  /\ Plain

\* detector.remove_detector(name)
RegRemove(name) ==
  LET r == RemoveDetector(detectors, name)
  IN /\ detectors' = r.reg
     /\ retFlag' = r.found
     /\ lastOp' = "remove_detector"
     /\ ret' = <<>>
     /\ raised' = FALSE
     /\ calls' = <<>>
     /\ pre' = Snapshot
     /\ UNCHANGED <<fileVars, now, detVars, results, batches>>

\* Whether the run whose detect() calls are `cs` lost a file under the
\* FileDetector's scan.
FileRaised(cs) == \E i \in DOMAIN cs : cs[i].detector = FD /\ cs[i].raised

\* run_all_detections(), reached through the call `op`.
Run(op) ==
  /\ Len(batches) < MaxRuns
  /\ \E walk \in Orders(Listed(fs)) :
       LET obs == Observed(fs, walk, watch_paths) IN
       \E k \in Races(IndexOf(detectors, FD) # 0 /\ enabled[FD], obs) :
         LET st == RunFrom(detectors, enabled, watch_paths,
                           [all |-> <<>>, cache |-> file_cache,
                            ldt |-> last_detection_time, calls |-> <<>>],
                           fs, now, walk, k)
         IN /\ results' = Extend(results, st.all)
            /\ ret' = st.all
            /\ retFlag' = FALSE
            /\ file_cache' = st.cache
            /\ last_detection_time' = st.ldt
            /\ calls' = st.calls
            /\ batches' = Append(batches, st.all)
            /\ lastOp' = op
            /\ pre' = Snapshot
            /\ fs' = IF FileRaised(st.calls) THEN AfterRace(fs, obs, k) ELSE fs
            /\ UNCHANGED <<now, watch_paths, enabled, detectors>>

\* detector.run_all_detections(): no exception leaves it.
RunAll == Run("run_all") /\ raised' = FALSE

\* detector.clear_history()
ClearHistory ==
  /\ results' = Cleared(results)
  /\ batches' = <<>>
  /\ lastOp' = "clear_history"
  /\ ret' = <<>>
  /\ retFlag' = FALSE
  /\ raised' = FALSE
  /\ calls' = <<>>
  /\ pre' = Snapshot
  /\ UNCHANGED <<fileVars, now, detVars, detectors>>

\* run_all_detections as the first run since the history was last cleared.
\* What a run returns and does to the detectors does not depend on the
\* history it appends to.
RunOnce == batches = <<>> /\ RunAll

RegFiles == {"d/a"}

NextReg ==
  \/ \E p \in RegFiles, m \in 1..MaxMtime : CreateFile(p, m) /\ Untracked
  \/ \E p \in RegFiles, m \in 1..MaxMtime : ModifyFile(p, m) /\ Untracked
  \/ \E p \in RegFiles : DeleteFile(p) /\ Untracked
  \/ \E o \in Dets : Enable(o) /\ Untracked
  \/ \E o \in Dets : Disable(o) /\ Untracked
  \/ \E o \in Dets : RegAdd(o) /\ Untracked
  \/ \E o \in Dets : RegRemove(NameOf(o)) /\ Untracked
  \/ RunOnce /\ Untracked
  \/ ClearHistory /\ Untracked

SpecReg == InitReg /\ [][NextReg]_vars

\* A coordinator with an empty registry over an empty directory, in which
\* both files appear: one detect() of the FileDetector can return two events.
InitOrder == InitFile /\ watch_paths = <<"d">> /\ \A p \in Files : fs[p] = 0

NextOrder ==
  \/ \E p \in Files : CreateFile(p, 1) /\ Untracked
  \/ Enable(PD) /\ Untracked
  \/ Disable(PD) /\ Untracked
  \/ \E o \in Dets : RegAdd(o) /\ Untracked
  \/ \E o \in Dets : RegRemove(NameOf(o)) /\ Untracked
  \/ RunOnce /\ Untracked
  \/ ClearHistory /\ Untracked

SpecOrder == InitOrder /\ [][NextOrder]_vars

\* ------------------------------- run_all_detections, detector by detector

\* The check a dict iterator makes each time the `for` asks it for the next
\* value: a dict whose size is not the size it had when the iterator was
\* made raises RuntimeError, "dictionary changed size during iteration".
DictChanged(it, reg) == Len(reg) # it.size

\* run_all_detections() up to its `for`: all_results = [] and the iterator
\* over self.detectors.values().
RunBegin ==
  /\ ~iter.on
  /\ Len(batches) < MaxRuns
  /\ iter' = [on |-> TRUE, at |-> 1, size |-> Len(detectors),
              all_results |-> <<>>, returned |-> <<>>]
  /\ lastOp' = "step"
  /\ ret' = <<>>
  /\ retFlag' = FALSE
  /\ raised' = FALSE
  /\ calls' = <<>>
  /\ pre' = Snapshot
  /\ UNCHANGED <<fileVars, now, detVars, regVars, batches, ghostVars,
                 agentVars, tickVars, loopVars, cursor, invoked, kept,
                 sideVars>>

\* One turn of `for detector in self.detectors.values()`.  The iterator
\* raises when the dict has changed size, and the RuntimeError leaves
\* run_all_detections, the `for` being outside the try; past the last value
\* the call extends the history and returns; otherwise the body runs on the
\* value at the iterator's index.  No file disappears under these calls.
RunNext ==
  /\ iter.on
  /\ IF DictChanged(iter, detectors) THEN
       /\ iter' = [iter EXCEPT !.on = FALSE]
       /\ raised' = TRUE
       /\ ret' = <<>>
       /\ lastOp' = "run_all"
       /\ batches' = Append(batches, <<>>)
       /\ UNCHANGED <<file_cache, last_detection_time, results>>
     ELSE IF iter.at > Len(detectors) THEN
       /\ iter' = [iter EXCEPT !.on = FALSE]
       /\ raised' = FALSE
       /\ results' = Extend(results, iter.all_results)
       /\ ret' = iter.all_results
       /\ lastOp' = "run_all"
       /\ batches' = Append(batches, iter.all_results)
       /\ UNCHANGED <<file_cache, last_detection_time>>
     ELSE
       LET o == detectors[iter.at] IN
       /\ raised' = FALSE
       /\ ret' = <<>>
       /\ lastOp' = "step"
       /\ UNCHANGED <<results, batches>>
       /\ IF ~enabled[o]
          THEN /\ iter' = [iter EXCEPT !.at = @ + 1]
               /\ UNCHANGED <<file_cache, last_detection_time>>
          ELSE \E walk \in Orders(Listed(fs)) :
                 LET r == DetectOf(o, enabled[o], watch_paths,
                                   [cache |-> file_cache,
                                    ldt |-> last_detection_time],
                                   fs, now, walk, 0)
                 IN /\ file_cache' = r.cache
                    /\ last_detection_time' =
                         [last_detection_time EXCEPT ![o] = r.ldt]
                    /\ iter' =
                         [iter EXCEPT
                            !.at = @ + 1,
                            !.all_results =
                              IF r.raised
                              THEN OnException(@, NameOf(o), r.error, now)
                              ELSE OnSuccess(@, r.events),
                            !.returned =
                              IF r.raised THEN @ ELSE @ \o r.events]
  /\ retFlag' = FALSE
  /\ calls' = <<>>
  /\ pre' = Snapshot
  /\ UNCHANGED <<fs, now, watch_paths, enabled, detectors, ghostVars,
                 agentVars, tickVars, loopVars, cursor, invoked, kept,
                 sideVars>>

\* The dict has the size the iterator has recorded: at most one call that
\* changes the size of the registry is made while a run is in progress.
SizeKept == iter.on => ~DictChanged(iter, detectors)

\* A coordinator whose registry is changed while run_all_detections
\* iterates over it, by another thread or by a detector's detect().
NextIter ==
  \/ \E p \in RegFiles : CreateFile(p, 1) /\ Untracked
  \/ \E p \in RegFiles : DeleteFile(p) /\ Untracked
  \/ \E o \in Dets : SizeKept /\ RegAdd(o) /\ Untracked
  \/ \E o \in Dets : SizeKept /\ RegRemove(NameOf(o)) /\ Untracked
  \/ RunBegin
  \/ RunNext

SpecIter == InitReg /\ [][NextIter]_vars

\* The coordinator as DetectionAgent._initialize_detectors fills it from the
\* default configuration: FileDetector() over the directory, then
\* ProcessDetector().
InitDet == InitWith(<<FD, PD>>) /\ watch_paths = <<"d">> /\ fs["d/b"] = 0

\* The detectors DetectionAgent constructs.
AgentDets == {FD, PD}

NextDet ==
  \/ \E p \in RegFiles, m \in 1..MaxMtime : CreateFile(p, m) /\ Untracked
  \/ \E p \in RegFiles, m \in 1..MaxMtime : ModifyFile(p, m) /\ Untracked
  \/ \E p \in RegFiles : DeleteFile(p) /\ Untracked
  \/ \E o \in AgentDets : Enable(o) /\ Untracked
  \/ \E o \in AgentDets : Disable(o) /\ Untracked
  \/ DetectFile /\ Untracked
  \/ DetectProcess /\ Untracked
  \/ RunAll /\ Untracked
  \/ ClearHistory /\ Untracked

SpecDet == InitDet /\ [][NextDet]_vars

\* ---------------------------------------------------- the DetectionAgent

\* DetectionAgent() with the default configuration: the coordinator holds the
\* FileDetector and the ProcessDetector, no callback is registered and no
\* loop runs.
InitAgent == InitDet /\ fs["d/a"] = 0

\* agent.add_callback(cb), of a callable that is not registered: the list
\* holds each of the three callables at most once.
AgentAdd(cb) ==
  /\ FirstOf(callbacks, cb) = 0
  /\ callbacks' = AddCallback(callbacks, cb)
  /\ UNCHANGED <<fileVars, now, detVars, regVars, batches>>
  /\ Plain
  /\ UNCHANGED <<ghostVars, running, thread, loops>>
  /\ notified' = <<>>
  /\ found' = Fields'

\* agent.remove_callback(cb)
AgentRemove(cb) ==
  LET r == RemoveCallback(callbacks, cb)
  IN /\ callbacks' = r.callbacks
     /\ retFlag' = r.found
     /\ lastOp' = "remove_callback"
     /\ ret' = <<>>
     /\ raised' = FALSE
     /\ calls' = <<>>
     /\ pre' = Snapshot
     /\ UNCHANGED <<fileVars, now, detVars, regVars, batches>>
     /\ UNCHANGED <<ghostVars, running, thread, loops>>
     /\ notified' = <<>>
     /\ found' = Fields

\* run_single_detection(), reached through the call `op`: the registry run,
\* then the dispatch of what it returned.
Single(op) ==
  /\ Run(op)
  /\ LET d == Dispatch(callbacks, ret')
     IN /\ notified' = d.log
        /\ raised' = d.raised
  /\ found' = Fields
  /\ UNCHANGED <<ghostVars, agentVars>>

\* agent.run_single_detection(), called by the controlling thread.
RunSingleDetection == Single("run_single_detection")

\* One iteration of _run_loop in the background thread th: the check of
\* self._running, run_single_detection() and the sleep.
RunLoop(th) ==
  /\ th \in loops
  /\ running
  /\ Single("run_loop")

\* agent.start()
Start ==
  /\ IF AlreadyRunning(running)
     THEN UNCHANGED <<running, thread, loops>>
     ELSE /\ thread < MaxThreads
          /\ running' = TRUE
          /\ thread' = thread + 1
          /\ loops' = loops \cup {thread + 1}
  /\ lastOp' = "start"
  /\ ret' = <<>>
  /\ retFlag' = FALSE
  /\ raised' = FALSE
  /\ calls' = <<>>
  /\ pre' = Snapshot
  /\ notified' = <<>>
  /\ found' = Fields
  /\ UNCHANGED <<fileVars, now, detVars, regVars, batches, ghostVars, callbacks>>

\* agent.is_running()
IsRunning == running

NextAgent ==
  \/ \E p \in RegFiles : CreateFile(p, 1) /\ Settled
  \/ \E p \in RegFiles : DeleteFile(p) /\ Settled
  \/ Enable(PD) /\ Settled
  \/ Disable(PD) /\ Settled
  \/ \E cb \in Callbacks : AgentAdd(cb) /\ Apart
  \/ \E cb \in Callbacks : AgentRemove(cb) /\ Apart
  \/ RunSingleDetection /\ Apart
  \/ \E th \in loops : RunLoop(th) /\ Apart
  \/ Start /\ Apart
  \/ ClearHistory /\ Settled

SpecAgent == InitAgent /\ [][NextAgent]_vars

\* ------------------------- start(), stop() and _run_loop, statement by statement

\* What the steps of this part leave alone: the detectors, the coordinator
\* and the callbacks.
Still ==
  UNCHANGED <<fileVars, now, detVars, regVars, batches, ghostVars, callbacks,
              notified, ret, retFlag, calls, pre, dispVars, sideVars>>

\* A step inside a call or a loop, and the step with which the call `op`
\* returns or raises.
Inside == lastOp' = "step" /\ raised' = FALSE /\ Still
Returns(op, r) == lastOp' = op /\ raised' = r /\ Still

\* The controlling threads that are inside start(), past its check.
Starting == {c \in Controllers : ctl[c].op = "start"}

\* c calls start(): `if self._running: return`
StartCheck(c) ==
  /\ ctl[c] = Idle
  /\ running \/ Cardinality(Created(pc)) + Cardinality(Starting) < MaxThreads
  /\ found' = Fields
  /\ stopped' = FALSE
  /\ IF AlreadyRunning(running)
     THEN UNCHANGED ctl /\ Returns("start", FALSE)
     ELSE ctl' = [ctl EXCEPT ![c] = [op |-> "start", at |-> "set"]] /\ Inside
  /\ UNCHANGED <<running, thread, loops, pc, late, left, rises>>

\* self._running = True
StartSet(c) ==
  /\ ctl[c] = [op |-> "start", at |-> "set"]
  /\ running' = TRUE
  /\ rises' = IF running THEN rises ELSE rises + 1
  /\ ctl' = [ctl EXCEPT ![c].at = "create"]
  /\ Inside
  /\ UNCHANGED <<thread, loops, pc, stopped, late, left, found>>

\* self._thread = threading.Thread(target=self._run_loop, daemon=True)
StartCreate(c) ==
  /\ ctl[c] = [op |-> "start", at |-> "create"]
  /\ LET new == Cardinality(Created(pc)) + 1
     IN /\ thread' = new
        /\ pc' = [pc EXCEPT ![new] = "new"]
  /\ ctl' = [ctl EXCEPT ![c].at = "launch"]
  /\ Inside
  /\ UNCHANGED <<running, loops, stopped, late, left, found, rises>>

\* self._thread.start(): the Thread that _thread references now begins
\* _run_loop; a Thread that has been started already raises RuntimeError.
StartLaunch(c) ==
  /\ ctl[c] = [op |-> "start", at |-> "launch"]
  /\ pc' = IF pc[thread] = "new" THEN [pc EXCEPT ![thread] = "check"] ELSE pc
  /\ loops' = LoopsOf(pc')
  /\ ctl' = [ctl EXCEPT ![c] = Idle]
  /\ Returns("start", pc[thread] # "new")
  /\ UNCHANGED <<running, thread, stopped, late, left, found, rises>>

\* Everything a stop() call finds.
Whole ==
  Fields @@ [callbacks |-> callbacks, detectors |-> detectors,
             results |-> results, stopped |-> stopped]

\* c calls stop(): `if not self._running: return`
StopCheck(c) ==
  /\ ctl[c] = Idle
  /\ found' = Whole
  /\ IF NotRunning(running)
     THEN UNCHANGED ctl /\ Returns("stop", FALSE)
     ELSE ctl' = [ctl EXCEPT ![c] = [op |-> "stop", at |-> "clear"]] /\ Inside
  /\ UNCHANGED <<running, thread, loops, pc, stopped, late, left, rises>>

\* self._running = False
StopClear(c) ==
  /\ ctl[c] = [op |-> "stop", at |-> "clear"]
  /\ running' = FALSE
  /\ late' = [th \in Threads |-> 0]
  /\ ctl' = [ctl EXCEPT ![c].at = "join"]
  /\ Inside
  /\ UNCHANGED <<thread, loops, pc, stopped, left, found, rises>>

\* `if self._thread and self._thread.is_alive(): self._thread.join(timeout=5.0)`
\* and the return.  join returns when the thread has ended, or after five
\* seconds while the thread is in a tick or asleep.
StopJoin(c) ==
  /\ ctl[c] = [op |-> "stop", at |-> "join"]
  /\ IsAlive(pc, thread) => pc[thread] \in Blocking
  /\ stopped' = TRUE
  /\ ctl' = [ctl EXCEPT ![c] = Idle]
  /\ Returns("stop", FALSE)
  /\ UNCHANGED <<running, thread, loops, pc, late, left, found, rises>>

\* Thread th reads the flag at `while self._running:` and enters the body or
\* returns from _run_loop.
LoopCheck(th) ==
  /\ pc[th] = "check"
  /\ IF Continue(running)
     THEN pc' = [pc EXCEPT ![th] = "tick"] /\ UNCHANGED left
     ELSE pc' = [pc EXCEPT ![th] = "done"]
          /\ left' = [left EXCEPT ![th] = "flag cleared"]
  /\ loops' = LoopsOf(pc')
  /\ Inside
  /\ UNCHANGED <<running, thread, ctl, stopped, late, found, rises>>

\* The run_single_detection() of thread th ends: it returns, or an
\* exception leaves it.
LoopTick(th, fails) ==
  /\ pc[th] = "tick"
  /\ pc' = [pc EXCEPT ![th] = IF fails THEN AfterError("tick") ELSE "sleep"]
  /\ left' = IF pc'[th] \in InLoop THEN left
             ELSE [left EXCEPT ![th] = "exception"]
  /\ late' = [late EXCEPT ![th] = IF late[th] < 2 THEN late[th] + 1 ELSE 2]
  /\ loops' = LoopsOf(pc')
  /\ Inside
  /\ UNCHANGED <<running, thread, ctl, stopped, found, rises>>

\* time.sleep(interval) of thread th ends: it returns, or raises for an
\* interval that is no valid duration.
LoopSleep(th, fails) ==
  /\ pc[th] = "sleep"
  /\ pc' = [pc EXCEPT ![th] = IF fails THEN AfterError("sleep") ELSE "check"]
  /\ left' = IF pc'[th] \in InLoop THEN left
             ELSE [left EXCEPT ![th] = "exception"]
  /\ loops' = LoopsOf(pc')
  /\ Inside
  /\ UNCHANGED <<running, thread, ctl, stopped, late, found, rises>>

\* The time.sleep(1) of the handler ends.
LoopRetry(th) ==
  /\ pc[th] = "except"
  /\ pc' = [pc EXCEPT ![th] = "check"]
  /\ loops' = LoopsOf(pc')
  /\ Inside
  /\ UNCHANGED <<running, thread, ctl, stopped, late, left, found, rises>>

\* The steps of the calls of controlling thread c.
Calls(c) ==
  \/ StartCheck(c)
  \/ StartSet(c)
  \/ StartCreate(c)
  \/ StartLaunch(c)
  \/ StopCheck(c)
  \/ StopClear(c)
  \/ StopJoin(c)

\* The steps of the background threads.
Loops ==
  \/ \E th \in Threads : LoopCheck(th)
  \/ \E th \in Threads, fails \in BOOLEAN : LoopTick(th, fails)
  \/ \E th \in Threads, fails \in BOOLEAN : LoopSleep(th, fails)
  \/ \E th \in Threads : LoopRetry(th)

\* One controlling thread calls start() and stop(), one call after the
\* other, beside the background threads.
NextLoop ==
  \/ Calls("main")
  \/ Loops
  \/ \E cb \in Callbacks : ctl["main"] = Idle /\ AgentAdd(cb) /\ Apart

SpecLoop == InitAgent /\ [][NextLoop]_vars

\* Two controlling threads call start() and stop() at the same time.
NextRace ==
  \/ \E c \in Controllers : Calls(c)
  \/ Loops

SpecRace == InitAgent /\ [][NextRace]_vars

\* ------------------------------------------- the dispatch, call by call

\* The callables in the list cbs.
Registered(cbs) == {cbs[i] : i \in DOMAIN cbs}

\* run_single_detection() up to the `for` of _notify_callbacks: the registry
\* run, `if results:`, and the iterator over self._callbacks, which is the
\* list itself and no copy of it.
NotifyBegin ==
  /\ cursor = 0
  /\ Run("tick")
  /\ cursor' = IF ShouldNotify(ret') THEN 1 ELSE 0
  /\ invoked' = <<>>
  /\ kept' = Registered(callbacks)
  /\ raised' = FALSE
  /\ notified' = <<>>
  /\ found' = Fields
  /\ UNCHANGED <<ghostVars, agentVars, loopVars, sideVars, iter>>

\* One turn of `for callback in self._callbacks`: the iterator yields the
\* entry at its index of the list as it is now and moves on, and the
\* callback is called; past the end of the list the loop is over and
\* run_single_detection returns.
NotifyNext ==
  /\ cursor # 0
  /\ IF cursor <= Len(callbacks)
     THEN LET cb == callbacks[cursor]
              escapes == CallbackRaises(cb) /\ ~Caught(cb)
          IN /\ invoked' = Append(invoked, cb)
             /\ cursor' = IF escapes THEN 0 ELSE cursor + 1
             /\ raised' = escapes
             /\ lastOp' = IF escapes THEN "run_single_detection" ELSE "step"
     ELSE /\ cursor' = 0
          /\ raised' = FALSE
          /\ lastOp' = "dispatched"
          /\ UNCHANGED invoked
  /\ UNCHANGED <<fileVars, now, detVars, regVars, batches, ghostVars,
                 agentVars, tickVars, ret, retFlag, calls, pre, kept,
                 loopVars, sideVars, iter>>

\* remove_callback(cb), by the controlling thread or by a callback, with a
\* dispatch in progress or not.
Unregister(cb) ==
  /\ AgentRemove(cb)
  /\ kept' = kept \ {cb}
  /\ UNCHANGED <<cursor, invoked, loopVars, sideVars, iter>>

\* One Agent whose callbacks are registered and removed between the calls of
\* a dispatch.
NextDispatch ==
  \/ NotifyBegin
  \/ NotifyNext
  \/ \E cb \in Callbacks : AgentAdd(cb) /\ Apart
  \/ \E cb \in Callbacks : Unregister(cb)
  \/ ClearHistory /\ Settled /\ cursor = 0

SpecDispatch == InitAgent /\ [][NextDispatch]_vars

\* ------------------------------------------------ the history and its copies

\* agent.get_detection_history(), which returns
\* detector.get_detection_history().
GetHistory ==
  /\ taken' = CopyOf(results)
  /\ seen' = results
  /\ out' = results
  /\ arg' = ""
  /\ lastOp' = "get_detection_history"
  /\ ret' = <<>>
  /\ retFlag' = FALSE
  /\ raised' = FALSE
  /\ calls' = <<>>
  /\ pre' = Snapshot
  /\ UNCHANGED <<fileVars, now, detVars, regVars, batches>>
  /\ UNCHANGED <<latest, cfgVars>>
  /\ Aside

\* The caller changes the list it holds, once between two steps of the
\* coordinator.  A list that is the history object changes the history with
\* it.
Mutate(kind) ==
  /\ taken.held
  /\ lastOp # "mutate"
  /\ kind = "remove" => View(taken, results) # <<>>
  /\ kind = "append" => Marker \notin Registered(View(taken, results))
  /\ IF taken.alias
     THEN results' = Mutated(kind, results) /\ UNCHANGED taken
     ELSE taken' = [taken EXCEPT !.list = Mutated(kind, taken.list)]
          /\ UNCHANGED results
  /\ seen' = View(taken, results)
  /\ arg' = kind
  /\ lastOp' = "mutate"
  /\ pre' = Snapshot
  /\ raised' = FALSE
  /\ UNCHANGED <<fileVars, now, detVars, detectors, batches, ret, retFlag,
                 calls, out, latest, cfgVars>>
  /\ Aside

\* A step of the coordinator while the caller holds its list.
Holding ==
  /\ seen' = View(taken, results)
  /\ UNCHANGED <<taken, out, arg, latest, cfgVars>>
  /\ Aside

NextHist ==
  \/ \E p \in RegFiles : CreateFile(p, 1) /\ Holding
  \/ \E p \in RegFiles : DeleteFile(p) /\ Holding
  \/ RunAll /\ Holding
  \/ ClearHistory /\ Holding
  \/ GetHistory
  \/ \E kind \in Mutations : Mutate(kind)

SpecHist == InitDet /\ [][NextHist]_vars

\* ------------------------------------------- the registry and the callback list

\* A call that returns nothing to the events, the flags or the history.
Quietly(op) ==
  /\ lastOp' = op
  /\ ret' = <<>>
  /\ raised' = FALSE
  /\ calls' = <<>>
  /\ pre' = Snapshot
  /\ UNCHANGED <<fileVars, now, detVars, results, batches>>

\* detector.add_detector(o), of any of the detector objects.
AddNamed(o) ==
  /\ detectors' = AddDetector(detectors, o)
  /\ latest' = [latest EXCEPT ![NameOf(o)] = o]
  /\ seen' = detectors
  /\ arg' = o
  /\ out' = None
  /\ retFlag' = FALSE
  /\ Quietly("add_detector")
  /\ UNCHANGED <<taken, callbacks, running, thread, loops>>

\* detector.remove_detector(name)
RemoveNamed(name) ==
  /\ RegRemove(name)
  /\ latest' = [latest EXCEPT ![name] = None]
  /\ seen' = detectors
  /\ arg' = name
  /\ out' = None
  /\ UNCHANGED <<taken, callbacks, running, thread, loops>>

\* detector.get_detector(name)
GetNamed(name) ==
  /\ out' = GetDetector(detectors, name)
  /\ seen' = detectors
  /\ arg' = name
  /\ retFlag' = FALSE
  /\ Quietly("get_detector")
  /\ UNCHANGED <<detectors, latest, taken, callbacks, running, thread, loops>>

\* agent.add_callback(cb), of a callable that may be registered already.
AddAny(cb) ==
  /\ Len(callbacks) < MaxCallbacks
  /\ callbacks' = AddCallback(callbacks, cb)
  /\ seen' = callbacks
  /\ arg' = cb
  /\ out' = None
  /\ retFlag' = FALSE
  /\ Quietly("add_callback")
  /\ UNCHANGED <<detectors, latest, taken, running, thread, loops>>

\* agent.remove_callback(cb)
RemoveAny(cb) ==
  /\ callbacks' = RemoveCallback(callbacks, cb).callbacks
  /\ retFlag' = RemoveCallback(callbacks, cb).found
  /\ seen' = callbacks
  /\ arg' = cb
  /\ out' = None
  /\ Quietly("remove_callback")
  /\ UNCHANGED <<detectors, latest, taken, running, thread, loops>>

\* A call on one of the two collections: no tick, no loop and no dispatch
\* is part of it.
Beside == UNCHANGED <<ghostVars, tickVars, loopVars, dispVars, cfgVars>>

\* The calls that change or read the two collections of an Agent.
NextNames ==
  \/ \E o \in Objects : AddNamed(o) /\ Beside
  \/ \E n \in Names : RemoveNamed(n) /\ Beside
  \/ \E n \in Names : GetNamed(n) /\ Beside
  \/ \E cb \in Callbacks : AddAny(cb) /\ Beside
  \/ \E cb \in Callbacks : RemoveAny(cb) /\ Beside

\* An Agent with an empty registry and no callback, as the tests of the
\* coordinator build it.
InitNames == InitReg /\ fs["d/a"] = 0

SpecNames == InitNames /\ [][NextNames]_vars

\* ------------------------------------------------------------- the Config

\* A Config call: it leaves the detectors, the coordinator and the Agent
\* alone.
Configured(op) ==
  /\ lastOp' = op
  /\ ret' = <<>>
  /\ retFlag' = FALSE
  /\ calls' = <<>>
  /\ pre' = Snapshot
  /\ seen' = Deep(dicts[self_config], lists)
  /\ UNCHANGED <<fileVars, now, detVars, regVars, batches, ghostVars,
                 agentVars, tickVars, loopVars, dispVars, taken, latest>>

\* The dict update of load_from_file with the document of `file`, on the
\* dict object `ref`.
Loaded(ds, ref, file) == [ds EXCEPT ![ref] = Update(ds[ref], Parsed(file))]

\* The caller lets go of the dict it holds from get_all.
Dropped(ds) == [ds EXCEPT ![GotDict] = EmptyDict]

\* Config(config_file).  When load_from_file raises, the constructor raises
\* and the caller keeps the Config it had.
Construct(file) ==
  LET fresh == CopyDict(Dropped(dicts), DefaultDict, OwnDict)
      loads == file # NoFile /\ ConfigExists(file)
      fails == loads /\ RaisesValueError(file)
  IN /\ raised' = fails
     /\ out' = IF fails THEN "ValueError" ELSE None
     /\ arg' = file
     /\ IF fails THEN dicts' = Dropped(dicts) /\ UNCHANGED self_config
        ELSE /\ self_config' = fresh.ref
             /\ dicts' = IF loads /\ ~NotJson(file)
                         THEN Loaded(fresh.dicts, fresh.ref, file)
                         ELSE fresh.dicts
     /\ got' = None
     /\ UNCHANGED <<lists, pause>>
     /\ Configured("Config")

\* config.load_from_file(file): open() raises FileNotFoundError for a path
\* that does not exist, json.load raises for a file that is not JSON.
LoadFromFile(file) ==
  /\ file # NoFile
  /\ raised' = (~ConfigExists(file) \/ RaisesValueError(file))
  /\ out' = IF ~ConfigExists(file) THEN "FileNotFoundError"
            ELSE IF RaisesValueError(file) THEN "ValueError"
            ELSE None
  /\ arg' = file
  /\ dicts' = IF ~ConfigExists(file) \/ NotJson(file) THEN Dropped(dicts)
              ELSE Loaded(Dropped(dicts), self_config, file)
  /\ got' = None
  /\ UNCHANGED <<lists, self_config, pause>>
  /\ Configured("load_from_file")

\* The key and value arguments of set.
SetKeys == {"detection_interval", "custom_setting"}
SetValues(k) ==
  IF k = "detection_interval" THEN {IntV(n) : n \in 1..MaxInterval}
  ELSE {StrV("other")}

\* config.set(k, v)
ConfigSet(k, v) ==
  /\ dicts' = [Dropped(dicts) EXCEPT
                 ![self_config] = Put(Dropped(dicts)[self_config], k, v)]
  /\ arg' = k
  /\ out' = v
  /\ raised' = FALSE
  /\ got' = None
  /\ UNCHANGED <<lists, self_config, pause>>
  /\ Configured("set")

\* config.get_all()
GetAll ==
  LET copy == CopyDict(dicts, self_config, GotDict)
  IN /\ dicts' = copy.dicts
     /\ got' = copy.ref
     /\ arg' = ""
     /\ out' = None
     /\ raised' = FALSE
     /\ UNCHANGED <<lists, self_config, pause>>
     /\ Configured("get_all")

\* What a caller does to the dict it holds: d["new_key"] = "new_value",
\* d["detection_interval"] = 60, del d["log_level"],
\* d["enabled_detectors"].append("extra").
Changes == {"put", "overwrite", "delete", "append"}

Changed(kind, d) ==
  IF kind = "put" THEN Put(d, "new_key", StrV("new_value"))
  ELSE IF kind = "overwrite" THEN Put(d, "detection_interval", IntV(60))
  ELSE [k \in DOMAIN d \ {"log_level"} |-> d[k]]

\* The caller changes the dict get_all has just returned, and lets go of it.
Change(kind) ==
  /\ got # None
  /\ kind = "append" =>
       /\ "enabled_detectors" \in DOMAIN dicts[got]
       /\ dicts[got]["enabled_detectors"].kind = "list"
       /\ "extra" \notin Registered(lists[dicts[got]["enabled_detectors"].s])
  /\ IF kind = "append"
     THEN /\ lists' = [lists EXCEPT ![dicts[got]["enabled_detectors"].s] =
                         Append(@, "extra")]
          /\ dicts' = Dropped(dicts)
     ELSE /\ dicts' = Dropped([dicts EXCEPT ![got] = Changed(kind, @)])
          /\ UNCHANGED lists
  /\ arg' = kind
  /\ out' = None
  /\ raised' = FALSE
  /\ got' = None
  /\ UNCHANGED <<self_config, pause>>
  /\ Configured("change")

\* One iteration of the _run_loop of an Agent started on this Config: the
\* interval the loop has read from it, and the pause that ends the iteration,
\* which failed or not.
Iterate(failed) ==
  LET interval == GetOr(dicts[self_config], "detection_interval",
                        IntV(DefaultInterval))
  IN /\ ValidInterval(interval)
     /\ pause' = [interval |-> interval.n,
                  slept |-> PauseAfter(interval.n, failed)]
     /\ arg' = IF failed THEN "failed" ELSE ""
     /\ out' = None
     /\ raised' = FALSE
     /\ dicts' = Dropped(dicts)
     /\ got' = None
     /\ UNCHANGED <<lists, self_config>>
     /\ Configured("iteration")

NextConfig ==
  \/ \E file \in ConfigFiles : Construct(file)
  \/ \E file \in ConfigFiles : LoadFromFile(file)
  \/ \E k \in SetKeys : \E v \in SetValues(k) : ConfigSet(k, v)
  \/ GetAll
  \/ \E kind \in Changes : Change(kind)
  \/ \E failed \in BOOLEAN : Iterate(failed)

SpecConfig == InitAgent /\ [][NextConfig]_vars

\* ------------------------------------------------------------- get_status

\* A status that reports every registered detector as enabled.
AllEnabled(reg, en, ldt) ==
  [name \in {NameOf(reg[i]) : i \in DOMAIN reg} |->
     [enabled |-> TRUE, last_detection |-> ldt[GetDetector(reg, name)]]]

\* The dict get_status builds from the registry: for each name, the enabled
\* flag and the last_detection_time of the detector registered under it.
DetectorStatus(reg, en, ldt) ==
  [name \in {NameOf(reg[i]) : i \in DOMAIN reg} |->
     [enabled |-> en[GetDetector(reg, name)],
      last_detection |-> ldt[GetDetector(reg, name)]]]

\* agent.get_status(): the snapshot holds copies, of the configuration
\* (get_all) and of the history (get_detection_history), whose length it
\* reports.
GetStatus ==
  /\ out' = [running |-> running,
             config |-> Deep(CopyDict(dicts, self_config, GotDict)
                               .dicts[GotDict], lists),
             detectors |-> DetectorStatus(detectors, enabled,
                                          last_detection_time),
             detection_count |-> Len(CopyOf(results).list),
             callbacks_registered |-> Len(callbacks)]
  /\ lastOp' = "get_status"
  /\ ret' = <<>>
  /\ retFlag' = FALSE
  /\ raised' = FALSE
  /\ calls' = <<>>
  /\ pre' = Snapshot
  /\ notified' = <<>>
  /\ found' = Fields
  /\ UNCHANGED <<fileVars, now, detVars, regVars, batches, ghostVars,
                 agentVars, loopVars, dispVars, taken, seen, arg, latest,
                 cfgVars>>

\* agent.stop(), as one step: the flag is cleared, and the join has seen the
\* thread end or has timed out.
Stop ==
  /\ IF NotRunning(running)
     THEN UNCHANGED <<running, loops>>
     ELSE /\ running' = FALSE
          /\ \E joined \in BOOLEAN :
               loops' = IF joined THEN loops \ {thread} ELSE loops
  /\ lastOp' = "stop"
  /\ ret' = <<>>
  /\ retFlag' = FALSE
  /\ raised' = FALSE
  /\ calls' = <<>>
  /\ pre' = Snapshot
  /\ notified' = <<>>
  /\ found' = Fields
  /\ UNCHANGED <<fileVars, now, detVars, regVars, batches, ghostVars,
                 callbacks, thread>>

\* A call other than get_status: the caller holds no snapshot after it.
Unheld ==
  /\ UNCHANGED <<loopVars, dispVars, taken, seen, arg, latest, cfgVars>>
  /\ out' = None

\* A step beside the Agent, after which no snapshot is held.
Unasked ==
  /\ UNCHANGED <<ghostVars, agentVars>>
  /\ notified' = <<>>
  /\ found' = Fields'
  /\ Unheld

\* The callables registered beside get_status: the two that return.
Listeners == {Callback1, Callback2}

\* The calls that change what get_status reports, and get_status.
NextStatus ==
  \/ \E o \in AgentDets : Enable(o) /\ Unasked
  \/ \E o \in AgentDets : Disable(o) /\ Unasked
  \/ \E cb \in Listeners : AgentAdd(cb) /\ Unheld
  \/ \E cb \in Listeners : AgentRemove(cb) /\ Unheld
  \/ RunSingleDetection /\ Unheld
  \/ Start /\ Unheld
  \/ Stop /\ Unheld
  \/ ClearHistory /\ Unasked
  \/ GetStatus

\* An Agent with the default configuration over a tree without files: the
\* events of its history are those of the ProcessDetector.
InitStatus == InitAgent /\ \A p \in Files : fs[p] = 0

SpecStatus == InitStatus /\ [][NextStatus]_vars

\* ---------------------------------------------- DetectionAgent(config)

\* The entries an enabled_detectors list is made of, and the lists.
DetectorKinds == {"file", "network", "process"}
EnabledLists == UNION {[1..n -> DetectorKinds] : n \in 0..MaxEnabled}

\* x in items
Contains(items, x) == \E i \in DOMAIN items : items[i] = x

\* A constructor that registers both detectors whatever the list holds.
InitializeBoth(items) == AddDetector(AddDetector(<<>>, FD), PD)

\* DetectionAgent._initialize_detectors on an empty registry, the config
\* giving `items` for "enabled_detectors".
InitializeDetectors(items) ==
  LET first == IF Contains(items, "file") THEN AddDetector(<<>>, FD)
               ELSE <<>>
  IN IF Contains(items, "process") THEN AddDetector(first, PD) ELSE first

\* agent = DetectionAgent(config), the config giving `items` for
\* "enabled_detectors": the fields are those of the new Agent, its
\* coordinator and its detectors; `pre` keeps what the Agent before it held.
NewAgent(items) ==
  /\ detectors' = InitializeDetectors(items)
  /\ running' = FALSE
  /\ thread' = NoThread
  /\ loops' = {}
  /\ callbacks' = <<>>
  /\ results' = <<>>
  /\ batches' = <<>>
  /\ enabled' = [o \in Dets |-> TRUE]
  /\ last_detection_time' = [o \in Dets |-> NoTime]
  /\ \E walk \in Orders(Listed(fs)) :
       file_cache' = InitializeCache(fs, walk, watch_paths)
  /\ seen' = items
  /\ latest' = [n \in Names |-> GetDetector(detectors', n)]
  /\ lastOp' = "DetectionAgent"
  /\ ret' = <<>>
  /\ retFlag' = FALSE
  /\ raised' = FALSE
  /\ calls' = <<>>
  /\ pre' = Snapshot
  /\ notified' = <<>>
  /\ found' = Fields'
  /\ sinceScan' = NoChange
  /\ scanFound' = NoChange
  /\ sinceInit' = NoChange
  /\ UNCHANGED <<fs, now, watch_paths, loopVars, dispVars, taken, out, arg,
                 cfgVars>>

\* Agents are constructed, used and replaced by new ones.
NextBuild ==
  \/ \E items \in EnabledLists : NewAgent(items)
  \/ \E cb \in Callbacks : AgentAdd(cb) /\ Apart
  \/ RunSingleDetection /\ Apart
  \/ Start /\ Apart

SpecBuild == InitAgent /\ [][NextBuild]_vars

\* ------------------------------------- stop() beside the ticks of the loop

\* Thread th at `while self._running:`.  At most MaxRuns ticks are begun
\* between two calls of clear_history.
LoopEnter(th) ==
  /\ Continue(running) =>
       Len(batches) + Cardinality({t \in Threads : pc[t] = "tick"}) < MaxRuns
  /\ LoopCheck(th)

\* The run_single_detection() of thread th, begun when th passed the check:
\* the registry run and the dispatch, then time.sleep(interval), or the
\* handler when an exception leaves the call.
LoopRun(th) ==
  /\ pc[th] = "tick"
  /\ Single("run_loop")
  /\ pc' = [pc EXCEPT ![th] = IF raised' THEN AfterError("tick") ELSE "sleep"]
  /\ late' = [late EXCEPT ![th] = IF late[th] < 2 THEN late[th] + 1 ELSE 2]
  /\ UNCHANGED <<ctl, stopped, left, rises, dispVars, sideVars>>

\* The run_single_detection() of thread th ends.  A step of NextCancel is
\* such a step exactly when it is a LoopRun(th), and one is possible
\* whenever th is in its tick: LoopEnter keeps a run for each tick begun.
TickEnds(th) ==
  /\ pc[th] = "tick"
  /\ \E p \in {"sleep", AfterError("tick")} : pc' = [pc EXCEPT ![th] = p]

\* The steps of background thread th.
LoopStep(th) ==
  \/ LoopEnter(th)
  \/ TickEnds(th)
  \/ \E fails \in BOOLEAN : LoopSleep(th, fails)
  \/ LoopRetry(th)

\* One controlling thread calls start() and stop() and registers callbacks
\* beside the background threads, whose ticks run the detectors.
NextCancel ==
  \/ Calls("main")
  \/ \E th \in Threads : LoopEnter(th)
  \/ \E th \in Threads : LoopRun(th)
  \/ \E th \in Threads, fails \in BOOLEAN : LoopSleep(th, fails)
  \/ \E th \in Threads : LoopRetry(th)
  \/ \E cb \in Listeners : ctl["main"] = Idle /\ AgentAdd(cb) /\ Apart

\* Every detect() and every callback returns, and a thread that is alive
\* is scheduled again and again.
SpecCancel ==
  /\ InitStatus
  /\ [][NextCancel]_vars
  /\ \A th \in Threads : WF_pc(LoopStep(th))

\* ------------------------------------------------- FileDetector: the claims

\* The elements of a sequence.
Range(q) == {q[i] : i \in DOMAIN q}

\* The existing files the watch targets cover.
Covered(f, watch) ==
  {p \in Listed(f) : p \in Range(watch) \/ \E t \in Range(watch) : IsDir(f, t)}

\* The last step was an enabled file_detector.detect() that returned.
ScanReturned == lastOp = "detect_file" /\ enabled[FD] /\ ~raised

\* C3: every detect() call on an enabled FileDetector or ProcessDetector
\* leaves the time of the call in last_detection_time, whatever the outcome
\* of the call.
C3_StampedByEveryCall ==
  /\ (lastOp = "detect_file" /\ enabled[FD]) => last_detection_time[FD] = now
  /\ (lastOp = "detect_process" /\ enabled[PD]) => last_detection_time[PD] = now

C5_Idempotent ==
  (ScanReturned /\ scanFound.n = 0 /\ pre.last_detection_time[FD] # NoTime)
    => (ret = <<>> /\ file_cache = pre.file_cache)

\* A second scan in succession, over a cache that the changing filesystem
\* has filled.
C5_Witness ==
  /\ ScanReturned /\ scanFound.n = 0 /\ pre.last_detection_time[FD] # NoTime
  /\ sinceInit.n = 2
  /\ \E p \in DOMAIN file_cache : fs[p] = file_cache[p]

\* C6 (modification): when the only file change since the last completed scan
\* is a new mtime on a file the cache holds, the next detect() returns
\* exactly one event: file_change, "modified", with that file's path.
C6_Modification ==
  (ScanReturned /\ scanFound.n = 1 /\ scanFound.kind = "modified"
     /\ scanFound.path \in DOMAIN pre.file_cache)
    => ret = <<FileEvent(scanFound.path, now, "modified")>>

\* A cached file was modified and the scan that followed has returned.
C6_Witness ==
  /\ ScanReturned /\ scanFound.n = 1 /\ scanFound.kind = "modified"
  /\ scanFound.path \in DOMAIN pre.file_cache
  /\ file_cache[scanFound.path] # pre.file_cache[scanFound.path]

\* The events of the batch b that name path p.
EventsAt(b, p) == {j \in DOMAIN b : b[j].path = p}

\* C29: the diff step.  When an enabled detect() has returned, every event
\* names a file the watch targets cover; a covered file that the cache did
\* not hold has exactly one event, "created"; one that it held with another
\* mtime has exactly one event, "modified"; one that it held with the same
\* mtime has none; and the cache entry of every covered file is the mtime
\* the call read.
C29_DiffStep ==
  ScanReturned =>
    /\ \A j \in DOMAIN ret :
         ret[j].type = "file_change" /\ ret[j].path \in Covered(fs, watch_paths)
    /\ \A p \in Covered(fs, watch_paths) :
         /\ p \in DOMAIN file_cache /\ file_cache[p] = fs[p]
         /\ IF p \notin DOMAIN pre.file_cache
            THEN /\ Cardinality(EventsAt(ret, p)) = 1
                 /\ \A j \in EventsAt(ret, p) : ret[j].action = "created"
            ELSE IF pre.file_cache[p] # fs[p]
            THEN /\ Cardinality(EventsAt(ret, p)) = 1
                 /\ \A j \in EventsAt(ret, p) : ret[j].action = "modified"
            ELSE EventsAt(ret, p) = {}

\* One detect() has returned a "created" and a "modified" event, over watch
\* targets that made it read a file twice, in the walk and as a target.
C29_Witness ==
  /\ ScanReturned
  /\ \E j \in DOMAIN ret : ret[j].action = "created"
  /\ \E j \in DOMAIN ret : ret[j].action = "modified"
  /\ Len(watch_paths) = 2 /\ "d" \in Range(watch_paths)

\* ----------------------------------- FileDetector: missing and deleted paths

\* Watch target t does not exist and has not existed since the detector was
\* constructed.
NeverExisted(t) ==
  /\ ~Exists(fs, t)
  /\ t \in Files => (sinceInit.n = 0 \/ (sinceInit.n = 1 /\ sinceInit.path # t))

\* Every watch target of the detector is such a path.
AllMissing == \A i \in DOMAIN watch_paths : NeverExisted(watch_paths[i])

\* C19: a FileDetector over a watch path that does not exist.  Its
\* construction raises nothing and caches nothing; every detect(), the first
\* or a later one, returns no event, raises nothing and leaves the cache
\* empty; and next to watch paths that exist, the cache never holds the
\* missing path and no event names it.
C19_MissingPath ==
  /\ \A i \in DOMAIN watch_paths :
       NeverExisted(watch_paths[i]) =>
         /\ watch_paths[i] \notin DOMAIN file_cache
         /\ \A j \in DOMAIN ret :
              ret[j].type = "file_change" => ret[j].path # watch_paths[i]
  /\ AllMissing =>
       /\ file_cache = EmptyDict
       /\ lastOp \in {"init", "detect_file"} => (ret = <<>> /\ ~raised)

\* A repeated detect() of an enabled detector whose two watch paths do not
\* exist, while a file that it does not watch exists.
C19_Witness ==
  /\ lastOp = "detect_file" /\ enabled[FD]
  /\ AllMissing /\ Len(watch_paths) = 2
  /\ pre.last_detection_time[FD] # NoTime
  /\ \E p \in Files : fs[p] # 0

\* C20: the cache only grows.  No step removes a path from _file_cache, and
\* a detect() called when a cached file is gone returns no event for that
\* file.
C20_CacheOnlyGrows ==
  [][/\ DOMAIN file_cache \subseteq DOMAIN file_cache'
     /\ lastOp' = "detect_file" =>
          \A p \in DOMAIN file_cache :
            fs[p] = 0 => \A j \in DOMAIN ret' : ret'[j].path # p]_vars

\* A cached file was deleted, and the scan that followed has returned with
\* the file's entry still in the cache.
C20_Witness ==
  /\ ScanReturned
  /\ scanFound.n = 1 /\ scanFound.kind = "deleted"
  /\ scanFound.path \in DOMAIN pre.file_cache
  /\ scanFound.path \in DOMAIN file_cache
  /\ fs[scanFound.path] = 0

\* ------------------------------------------------ the coordinator: the claims

\* The registered detectors that are enabled, in registry order.
EnabledOf(reg) == SelectSeq(reg, LAMBDA o : enabled[o])

\* The events of the calls cs that returned, in order.
RECURSIVE Returned(_)
Returned(cs) ==
  IF cs = <<>> THEN <<>>
  ELSE (IF Head(cs).raised THEN <<>> ELSE Head(cs).events) \o Returned(Tail(cs))

\* The detection_error events of batch b that name detector n.
ErrorsOf(b, n) ==
  {i \in DOMAIN b : b[i].type = "detection_error" /\ b[i].detector = n}

IsError(e) == e.type = "detection_error"

\* C1 (failure isolation): run_all_detections raises nothing; it calls
\* detect() on every enabled registered detector, before or after a raising
\* one; it returns exactly one detection_error event per raising detector,
\* with that detector's name and the stringified exception, none for a
\* detector that returned, and every event of every detector that returned.
C1_FailureIsolation ==
  lastOp = "run_all" =>
    /\ ~raised
    /\ [i \in DOMAIN calls |-> calls[i].detector]
         = [i \in DOMAIN EnabledOf(detectors) |-> NameOf(EnabledOf(detectors)[i])]
    /\ \A i \in DOMAIN calls :
         IF calls[i].raised
         THEN /\ Cardinality(ErrorsOf(ret, calls[i].detector)) = 1
              /\ \A j \in ErrorsOf(ret, calls[i].detector) :
                   ret[j].error = calls[i].error
         ELSE ErrorsOf(ret, calls[i].detector) = {}
    /\ SelectSeq(ret, LAMBDA e : ~IsError(e)) = Returned(calls)

\* A run in which a detector that returned events precedes a raising one and
\* another one follows it.
C1_Witness ==
  /\ lastOp = "run_all"
  /\ \E i, j, l \in DOMAIN calls :
       /\ i < j /\ j < l
       /\ ~calls[i].raised /\ calls[i].events # <<>>
       /\ calls[j].raised
       /\ ~calls[l].raised /\ calls[l].events # <<>>

\* The events of batch b that detector o produced.
EventsOf(b, o) ==
  {i \in DOMAIN b :
     \/ o = FD /\ b[i].type = "file_change"
     \/ o = PD /\ b[i].type = "process_check"
     \/ b[i].type = "detection_error" /\ b[i].detector = NameOf(o)}

\* C2 (disabled detectors are inert): a detect() on a disabled detector
\* returns no event and a run_all_detections returns no event of a disabled
\* detector; the call changes neither that detector's last_detection_time
\* nor, for the FileDetector, its cache.
C2_DisabledInert ==
  /\ (lastOp = "detect_file" /\ ~enabled[FD]) =>
       /\ ret = <<>> /\ ~raised
       /\ file_cache = pre.file_cache
       /\ last_detection_time[FD] = pre.last_detection_time[FD]
  /\ (lastOp = "detect_process" /\ ~enabled[PD]) =>
       /\ ret = <<>> /\ ~raised
       /\ last_detection_time[PD] = pre.last_detection_time[PD]
  /\ lastOp = "run_all" =>
       \A i \in DOMAIN detectors :
         LET o == detectors[i] IN
         ~enabled[o] =>
           /\ EventsOf(ret, o) = {}
           /\ last_detection_time[o] = pre.last_detection_time[o]
           /\ o = FD => file_cache = pre.file_cache

\* A file whose change the FileDetector has not recorded.
Unreported(p) ==
  fs[p] # 0 /\ (p \notin DOMAIN file_cache \/ file_cache[p] # fs[p])

\* The FileDetector is disabled while a file change is pending, and a run has
\* returned the ProcessDetector's event alone.
C2_Witness ==
  /\ lastOp = "run_all"
  /\ ~enabled[FD] /\ enabled[PD]
  /\ \E p \in Files : Unreported(p)
  /\ Len(ret) = 1
  /\ last_detection_time[FD] # NoTime

\* The concatenation of a sequence of batches.
RECURSIVE Flatten(_)
Flatten(bs) == IF bs = <<>> THEN <<>> ELSE Head(bs) \o Flatten(Tail(bs))

\* C7 (history accumulation): the history is the in-order concatenation of
\* the batches that run_all_detections returned since the last
\* clear_history, and clear_history leaves it empty.
C7_History ==
  /\ results = Flatten(batches)
  /\ lastOp = "run_all" => (batches # <<>> /\ batches[Len(batches)] = ret)
  /\ lastOp = "clear_history" => results = <<>>

\* Two runs with different non-empty batches since a clear_history that
\* emptied a history.
C7_Witness ==
  /\ lastOp = "run_all"
  /\ Len(batches) = 2
  /\ batches[1] # <<>> /\ batches[2] # <<>> /\ batches[1] # batches[2]
  /\ Len(results) = Len(batches[1]) + Len(batches[2])

\* ------------------------------------------- the DetectionAgent: the claims

\* The last step was a tick: a run_single_detection call, made by the
\* controlling thread or by the background loop.
Ticked == lastOp \in {"run_single_detection", "run_loop"}

\* The positions of the invocations of callback cb in the log.
InvocationsOf(log, cb) == {i \in DOMAIN log : log[i].callback = cb}

RECURSIVE Assembled(_, _)
Assembled(cs, t) ==
  IF cs = <<>> THEN <<>>
  ELSE (IF Head(cs).raised
        THEN <<ErrorEvent(Head(cs).detector, Head(cs).error, t)>>
        ELSE Head(cs).events) \o Assembled(Tail(cs), t)

\* C30: the order of a batch.  The batch run_all_detections returns is the
\* concatenation, in the iteration order of the registry, of what each
\* enabled detector contributed: the events its detect() returned, in the
\* order it returned them, or its detection_error event when it raised.
\* The batch is a function of the registry and of what the detectors
\* returned, and so two such runs return the same batch.
C30_BatchOrder ==
  lastOp = "run_all" =>
    /\ [i \in DOMAIN calls |-> calls[i].detector]
         = [i \in DOMAIN EnabledOf(detectors) |-> NameOf(EnabledOf(detectors)[i])]
    /\ ret = Assembled(calls, now)

\* A run over three enabled detectors in which the FileDetector, not the
\* first of the registry, returned two events and the raising detector is
\* neither the first nor the last.
C30_Witness ==
  /\ lastOp = "run_all"
  /\ Len(calls) = 3
  /\ calls[2].raised
  /\ \E i \in {1, 3} : calls[i].detector = FD /\ Len(calls[i].events) = 2
  /\ detectors[1] # FD

\* C9 (callback failure isolation): in a tick with a non-empty result set,
\* over a callback list in which some callbacks raise, every other callback,
\* before or after a raising one, is invoked once with the result set; the
\* tick raises nothing; and what it returns is what the detectors produced,
\* as with no raising callback.
C9_CallbackIsolation ==
  (Ticked /\ ret # <<>> /\ \E i \in DOMAIN callbacks : CallbackRaises(callbacks[i]))
    => /\ ~raised
       /\ \A i \in DOMAIN callbacks :
            ~CallbackRaises(callbacks[i]) =>
              /\ Cardinality(InvocationsOf(notified, callbacks[i])) = 1
              /\ \A j \in InvocationsOf(notified, callbacks[i]) :
                   notified[j].results = ret
       /\ ret = Assembled(calls, now)
       /\ batches[Len(batches)] = ret

\* A tick has invoked a callback that returned, then one that raised, then
\* another one that returned.
C9_Witness ==
  /\ Ticked /\ ret # <<>>
  /\ Len(notified) = 3
  /\ ~notified[1].raised /\ notified[2].raised /\ ~notified[3].raised
  /\ notified[3].results = ret

C11_StopIdle ==
  (lastOp = "stop" /\ ~found.running) =>
    /\ ~raised
    /\ running = found.running
    /\ thread = found.thread
    /\ loops = found.loops
    /\ callbacks = found.callbacks
    /\ detectors = found.detectors
    /\ results = found.results
    /\ stopped = found.stopped
    /\ ~IsRunning

\* stop() has returned on an Agent with callbacks that an earlier stop() had
\* stopped already.
C11_Witness ==
  /\ lastOp = "stop" /\ ~found.running
  /\ found.thread # NoThread /\ found.stopped
  /\ callbacks # <<>>

\* The loops that have passed the flag check and are inside
\* run_single_detection.
Ticking == {th \in Threads : pc[th] = "tick"}

\* No controlling thread is inside start() or stop().
Quiet == \A c \in Controllers : ctl[c] = Idle

\* C12: after any sequence of start() and stop() calls by one controlling
\* thread, at most one background thread of the Agent is alive and executing
\* _run_loop.
C12_OneLoop == Cardinality(loops) <= 1

\* C13: once stop() has returned, and until a later start(), no loop begins a
\* new tick: a loop is inside run_single_detection only if it passed the flag
\* check before the flag was cleared, and it ends at most that one tick.
C13_NoNewTick ==
  stopped =>
    \A th \in Threads :
      /\ late[th] <= 1
      /\ pc[th] = "tick" => late[th] = 0

\* stop() has returned, its join timed out or joined a later thread, and a
\* loop that passed the check before the flag was cleared still runs its
\* tick.
C13_Witness ==
  /\ stopped /\ lastOp = "step"
  /\ \E th \in Threads : pc[th] = "tick" /\ late[th] = 0

\* C14: ticks of one Agent never overlap: at no moment are two loops of the
\* Agent past the flag check and inside run_single_detection.
C14_NoOverlap == Cardinality(Ticking) <= 1

\* C15: only a cleared flag ends the loop: a thread that has left _run_loop
\* left it at the flag check, reading false, and never through an exception
\* raised inside an iteration.
C15_OnlyStopEnds ==
  \A th \in Threads :
    /\ pc[th] = "done" => left[th] = "flag cleared"
    /\ left[th] # "exception"

\* An iteration has failed while the flag is set, and the loop is alive in
\* its handler.
C15_Witness ==
  \E th \in Threads : pc[th] = "except" /\ running /\ th \in loops

\* C16: the flag is guarded against concurrent start() and stop(): no more
\* threads are created than the flag has gone from false to true, and when
\* every call has returned is_running() is true exactly when one loop is
\* active.
C16_Guarded ==
  /\ Cardinality(Created(pc)) <= rises
  /\ Quiet => (IsRunning <=> Cardinality(loops) = 1)

\* C17: the callback list is safe for access during a dispatch: when a
\* dispatch is over, every callback that was registered when it began and
\* was not removed before its end has been invoked exactly once in it,
\* whatever add_callback and remove_callback calls ran in between.
C17_SafeDispatch ==
  lastOp = "dispatched" =>
    \A cb \in kept :
      Cardinality({i \in DOMAIN invoked : invoked[i] = cb}) = 1

\* The detect() calls of cs that raised.
Failed(cs) == {i \in DOMAIN cs : cs[i].raised}

\* The only outcome of the detect() calls cs is one failure: one call raised
\* and no call returned an event.
OnlyOneFailure(cs) == Cardinality(Failed(cs)) = 1 /\ Returned(cs) = <<>>

\* C18: a detection_error event is a detection like any other.  A tick whose
\* only outcome is one detector failure returns a result set of that one
\* event, appends it to the history and passes it to every registered
\* callback; and in every tick the events tagged "detection_error" are as
\* many as the detectors that raised, so the tag tells them from the rest.
C18_ErrorsAreDetections ==
  Ticked =>
    /\ Cardinality({i \in DOMAIN ret : IsError(ret[i])})
         = Cardinality(Failed(calls))
    /\ OnlyOneFailure(calls) =>
         /\ ret # <<>>
         /\ \A i \in Failed(calls) :
              ret = <<ErrorEvent(calls[i].detector, calls[i].error, now)>>
         /\ results = pre.results \o ret
         /\ \A j \in DOMAIN callbacks :
              \E n \in DOMAIN notified :
                /\ notified[n].callback = callbacks[j]
                /\ notified[n].results = ret

\* A tick of the background loop in which the only enabled detector raised,
\* over a history that held events, with several callbacks registered.
C18_Witness ==
  /\ lastOp = "run_loop"
  /\ OnlyOneFailure(calls)
  /\ pre.results # <<>>
  /\ Len(callbacks) >= 2

\* --------------------------------------------- the history: the claims

\* C21: the history is handed out as a copy.  Appending to, removing from or
\* reversing a list that get_detection_history returned leaves the history
\* as it was, and a run_all_detections or a clear_history leaves a list
\* returned before as it was.
C21_HistorySnapshots ==
  /\ lastOp = "get_detection_history" => out = results
  /\ lastOp = "mutate" => results = pre.results
  /\ (taken.held /\ lastOp \in {"run_all", "clear_history"})
       => View(taken, results) = seen

\* A caller holds a list of events that it has changed, and a run has since
\* appended other events to the history.
C21_Witness ==
  /\ lastOp = "run_all" /\ ret # <<>>
  /\ taken.held
  /\ Marker \in Registered(taken.list)
  /\ Len(taken.list) >= 2
  /\ results # taken.list

\* ------------------------------ the registry and the callback list: the claims

\* C22: registry names are unique and the last write wins.  The registry
\* never holds two detectors with one name; get_detector(name) returns the
\* detector added last under that name and not removed since, None when
\* there is none; and add_detector under a name the registry holds puts the
\* new detector in the place of the old one and leaves the size as it was.
C22_LastWriteWins ==
  /\ \A i, j \in DOMAIN detectors :
       NameOf(detectors[i]) = NameOf(detectors[j]) => i = j
  /\ \A n \in Names : GetDetector(detectors, n) = latest[n]
  /\ lastOp = "get_detector" => out = latest[arg]
  /\ (lastOp = "add_detector" /\ IndexOf(seen, NameOf(arg)) # 0) =>
       /\ Len(detectors) = Len(seen)
       /\ detectors[IndexOf(seen, NameOf(arg))] = arg

\* The second FileDetector has been added to a registry of several detectors
\* that held the first one.
C22_Witness ==
  /\ lastOp = "add_detector" /\ arg = FD2
  /\ Len(seen) >= 2
  /\ \E i \in DOMAIN seen : seen[i] = FD

\* The list q without its entry at position k.
Without(q, k) == SubSeq(q, 1, k - 1) \o SubSeq(q, k + 1, Len(q))

\* remove_detector(name) returns True exactly when the registry holds the
\* name; it then leaves the registry without that name and with its other
\* entries as they were, and otherwise leaves it as it was.
RemovedDetector ==
  lastOp = "remove_detector" =>
    /\ retFlag = (\E i \in DOMAIN seen : NameOf(seen[i]) = arg)
    /\ IF retFlag
       THEN /\ \A i \in DOMAIN detectors : NameOf(detectors[i]) # arg
            /\ \E k \in DOMAIN seen :
                 NameOf(seen[k]) = arg /\ detectors = Without(seen, k)
       ELSE detectors = seen

\* C23, as stated: remove_callback does the same on the callback list, which
\* after a call that returned True no longer contains the callable.
C23_RemovesAll ==
  /\ RemovedDetector
  /\ lastOp = "remove_callback" =>
       /\ retFlag = (\E i \in DOMAIN seen : seen[i] = arg)
       /\ IF retFlag
          THEN /\ \A i \in DOMAIN callbacks : callbacks[i] # arg
               /\ \E k \in DOMAIN seen :
                    seen[k] = arg /\ callbacks = Without(seen, k)
          ELSE callbacks = seen

\* C23, amended: remove_callback returns True exactly when the list holds the
\* callable, and then takes out its first occurrence and nothing else, so
\* that a callable registered several times stays registered; otherwise the
\* list is as it was.
C23_RemovesFirst ==
  /\ RemovedDetector
  /\ lastOp = "remove_callback" =>
       /\ retFlag = (\E i \in DOMAIN seen : seen[i] = arg)
       /\ IF retFlag
          THEN \E k \in DOMAIN seen :
                 /\ seen[k] = arg
                 /\ \A i \in 1..(k - 1) : seen[i] # arg
                 /\ callbacks = Without(seen, k)
          ELSE callbacks = seen

\* remove_callback has returned True for a callable registered twice, with
\* another callable between the two.
C23_Witness ==
  /\ lastOp = "remove_callback" /\ retFlag
  /\ Len(seen) = 3 /\ seen[1] = arg /\ seen[3] = arg /\ seen[2] # arg

\* C26: stop() destroys the loop.  When a stop() that found the Agent
\* running has returned, whatever the detection interval, is_running() is
\* false and the thread that start() created is no longer alive.
C26_StopDestroysLoop ==
  (lastOp = "stop" /\ found.running /\ Quiet) =>
    /\ ~IsRunning
    /\ ~IsAlive(pc, thread)

\* ------------------------------------------------------ Config: the claims

\* What the keys of the Config read, and what those of DEFAULT_CONFIG read.
Current == Deep(dicts[self_config], lists)
Defaults == Deep(dicts[DefaultDict], lists)

\* DEFAULT_CONFIG as the class body wrote it.
OriginalDefaults ==
  Deep(DefaultConfig, [r \in ListRefs |-> DefaultListItems])

\* The document of a file, as its keys read.
Document(file) == Deep(Parsed(file), lists)

\* C24: get_status is read-only.  A get_status() call changes neither the
\* running flag, the thread, the callbacks, the registry, the enabled flags,
\* the last_detection_time of a detector, the file cache, the history nor
\* the configuration, and the snapshot it returns holds the running flag,
\* the length of the history as detection_count, the number of callbacks,
\* and for each registered name the enabled flag and the
\* last_detection_time of its detector.
C24_StatusReadOnly ==
  [][lastOp' = "get_status" =>
       /\ UNCHANGED <<running, thread, loops, callbacks, detectors, enabled,
                      last_detection_time, file_cache, results, dicts, lists,
                      self_config>>
       /\ out'.running = running
       /\ out'.detection_count = Len(results)
       /\ out'.callbacks_registered = Len(callbacks)
       /\ DOMAIN out'.detectors = {NameOf(detectors[i]) : i \in DOMAIN detectors}
       /\ \A i \in DOMAIN detectors :
            out'.detectors[NameOf(detectors[i])] =
              [enabled |-> enabled[detectors[i]],
               last_detection |-> last_detection_time[detectors[i]]]]_vars

\* get_status has returned on a running Agent with a callback, a history and
\* a disabled detector that has run.
C24_Witness ==
  /\ lastOp = "get_status"
  /\ out.running /\ out.detection_count > 0 /\ out.callbacks_registered > 0
  /\ \E name \in DOMAIN out.detectors :
       /\ ~out.detectors[name].enabled
       /\ out.detectors[name].last_detection >= 0

\* C25: after an iteration of the loop that failed, the loop pauses for the
\* fixed backoff, and for every valid detection_interval that pause is
\* strictly shorter than the pause after an iteration that did not fail.
C25_BackoffShorter ==
  (lastOp = "iteration" /\ arg = "failed") =>
    /\ pause.slept = Backoff
    /\ pause.slept < pause.interval

\* C27: overrides merge over the defaults.  After a load every key of the
\* document has the document's value and every other key the value it had;
\* after a construction the keys the file does not give have their default
\* values; after set(k, v) key k has value v and the others are as they
\* were; DEFAULT_CONFIG reads as the class body wrote it; and whatever the
\* caller does to the dict get_all returned, the Config reads as before.
C27_MergeOverDefaults ==
  /\ (lastOp = "load_from_file" /\ ~raised) =>
       /\ DOMAIN Current = DOMAIN seen \cup DOMAIN Document(arg)
       /\ \A k \in DOMAIN Current :
            Current[k] = IF k \in DOMAIN Document(arg) THEN Document(arg)[k]
                         ELSE seen[k]
  /\ (lastOp = "Config" /\ ~raised) =>
       \A k \in DOMAIN OriginalDefaults :
         Current[k] = IF arg = TestFile /\ k \in DOMAIN Document(arg)
                      THEN Document(arg)[k] ELSE OriginalDefaults[k]
  /\ lastOp = "set" =>
       /\ dicts[self_config][arg] = out
       /\ \A k \in DOMAIN seen \ {arg} : Current[k] = seen[k]
  /\ Defaults = OriginalDefaults
  /\ lastOp = "change" => Current = seen

\* C28: a file that is not JSON is fatal.  load_from_file on it raises
\* ValueError and leaves the values as they were; Config(file) on it raises
\* ValueError to its caller; and Config(path) for a path that does not exist
\* raises nothing and has the values of DEFAULT_CONFIG.
C28_MalformedIsFatal ==
  /\ (lastOp = "load_from_file" /\ NotJson(arg)) =>
       /\ raised /\ out = "ValueError"
       /\ Current = seen
  /\ (lastOp = "Config" /\ NotJson(arg)) => (raised /\ out = "ValueError")
  /\ (lastOp = "Config" /\ arg = MissingFile) =>
       /\ ~raised
       /\ Current = Defaults

\* load_from_file has raised on the file that is not JSON, on a Config whose
\* values were not the defaults.
C28_Witness ==
  /\ lastOp = "load_from_file" /\ arg = BadFile /\ raised
  /\ seen # Defaults
  /\ "custom_setting" \in DOMAIN Current

\* ------------------------------------------- DetectionAgent(config): the claim

\* C31: construction from the config.  Right after DetectionAgent(config)
\* the registry holds a detector named "file_detector" exactly when "file"
\* is in enabled_detectors, one named "process_detector" exactly when
\* "process" is in it, and nothing else, each name once; the Agent is not
\* running, has no callback and an empty history.
C31_BuiltFromConfig ==
  lastOp = "DetectionAgent" =>
    /\ IndexOf(detectors, "file_detector") # 0 <=> Contains(seen, "file")
    /\ IndexOf(detectors, "process_detector") # 0 <=> Contains(seen, "process")
    /\ \A i \in DOMAIN detectors :
         /\ NameOf(detectors[i]) \in {"file_detector", "process_detector"}
         /\ \A j \in DOMAIN detectors :
              NameOf(detectors[i]) = NameOf(detectors[j]) => i = j
    /\ ~IsRunning
    /\ callbacks = <<>>
    /\ results = <<>>

\* An Agent has been built from a list that names "network" and "file",
\* "file" twice, after an Agent that had a history.
C31_Witness ==
  /\ lastOp = "DetectionAgent"
  /\ Contains(seen, "network") /\ ~Contains(seen, "process")
  /\ Len(seen) = 3
  /\ detectors = <<FD>>
  /\ pre.results # <<>>

\* -------------------------------------------------- cancellation: the claim

\* C32: cancellation is cooperative and live.  Once the flag is cleared a
\* loop that is alive ends, unless a start() sets the flag again; and a
\* tick is never cut short: the step that ends it has called every enabled
\* detector, has appended the batch to the history and, the batch not being
\* empty, has passed it to every callback, and it leaves the thread inside
\* the loop, which ends at its next check of the flag only.
C32_CancelIsLive ==
  /\ \A th \in Threads :
       (~running /\ pc[th] \in InLoop) ~> (pc[th] = "done" \/ running)
  /\ [][\A th \in Threads :
          (pc[th] = "tick" /\ pc'[th] # "tick") =>
            /\ pc'[th] \in InLoop
            /\ lastOp' = "run_loop"
            /\ [i \in DOMAIN calls' |-> calls'[i].detector]
                 = [i \in DOMAIN EnabledOf(detectors) |->
                      NameOf(EnabledOf(detectors)[i])]
            /\ results' = results \o ret'
            /\ ret' # <<>> =>
                 /\ [i \in DOMAIN notified' |-> notified'[i].callback]
                      = callbacks
                 /\ \A i \in DOMAIN notified' : notified'[i].results = ret']_vars

\* stop() has cleared the flag and returned while a tick was in progress,
\* and the tick has then run to its end and notified a callback.
C32_Witness ==
  /\ stopped /\ ~running
  /\ lastOp = "run_loop"
  /\ ret # <<>> /\ notified # <<>>
  /\ \E th \in Threads : pc[th] = "sleep" /\ late[th] = 1

\* ------------------------------------------ the run, step by step: the claim

\* C33: no event is lost.  When run_all_detections has ended, every event
\* that a detect() call of the run returned is in what the run returned to
\* its caller and in the history.
C33_NoEventLost ==
  lastOp = "run_all" =>
    \A i \in DOMAIN iter.returned :
      /\ \E j \in DOMAIN ret : ret[j] = iter.returned[i]
      /\ \E j \in DOMAIN results : results[j] = iter.returned[i]

\* The paths whose cache entry the last call added or replaced.
Rewritten(before, after) ==
  {p \in DOMAIN after : p \notin DOMAIN before \/ before[p] # after[p]}

\* C34: cache update and event emission are one step of detect(): when a
\* file_detector.detect() call has added or replaced a cache entry, the value
\* the caller of that call receives holds the event of that path, also when
\* the call ends by raising.
C34_CacheWithEvent ==
  lastOp = "detect_file" =>
    \A p \in Rewritten(pre.file_cache, file_cache) : EventsAt(ret, p) # {}

\* C35: a file deleted and created again at the same path is never reported
\* as "created".  The cache keeps the entry of a deleted file (C20), so the
\* path of such a file is one the cache holds when detect() is called: when
\* an enabled detect() has returned, a covered file whose path the cache held
\* has no "created" event, has exactly one event, "modified", when its mtime
\* is not the cached one, and has no event when it is.
C35_RecreatedIsModified ==
  ScanReturned =>
    \A p \in Covered(fs, watch_paths) \cap DOMAIN pre.file_cache :
      /\ \A j \in EventsAt(ret, p) : ret[j].action # "created"
      /\ fs[p] # pre.file_cache[p] =>
           \E j \in DOMAIN ret :
             /\ EventsAt(ret, p) = {j}
             /\ ret[j] = FileEvent(p, now, "modified")
      /\ fs[p] = pre.file_cache[p] => EventsAt(ret, p) = {}

\* The only file change since the last scan is the creation of a file whose
\* path the cache held from before its deletion, with another mtime, and the
\* scan that followed has returned its "modified" event.
C35_Witness ==
  /\ ScanReturned
  /\ scanFound.n = 1 /\ scanFound.kind = "created"
  /\ scanFound.path \in DOMAIN pre.file_cache
  /\ pre.file_cache[scanFound.path] # fs[scanFound.path]
  /\ ret = <<FileEvent(scanFound.path, now, "modified")>>

\* The number of times the watch targets of a call lead to file p: once per
\* target that is p itself, once per target that is a directory holding p.
Observations(f, watch, p) ==
  Cardinality({i \in DOMAIN watch :
                 f[p] # 0 /\ (watch[i] = p \/ IsDir(f, watch[i]))})

C7_WitnessCleared == lastOp = "clear_history" /\ pre.results # <<>>

====
